---- MODULE Spec2Model ----
(***************************************************************************)
(* The consumer-group coordinator of gomdb (package cgroup) over the       *)
(* Message DB event store.                                                 *)
(*                                                                         *)
(* Time is counted in milliseconds.  Every handler of JoinGroup's select   *)
(* loop is one action, taken at one instant; the clock advances only when  *)
(* no running coordinator has a channel ready.                             *)
(***************************************************************************)
EXTENDS Integers, Sequences, FiniteSets, TLC

\* ---------------------------------------------------------------- bounds

\* the clock stops here
MaxTime == 2100
\* the same, for one consumer on its own
SoloMaxTime == 5200
\* the same, for a leader that stops and the consumer that takes over
FailoverMaxTime == 6200
\* length the coordination stream may grow to
MaxEvents == 30
\* number of messages written to the domain category
MaxDomain == 1
\* number of writes to other streams (each moves the global position)
MaxOther == 1
\* the clock stops here when a consumer stops that has a milestone to complete
DebtMaxTime == 2100
\* the clock stops here when a consumer outlives another's check-ins
ExpiryMaxTime == 4100
\* the clock stops here where a lone consumer is to get from one milestone to the next
ProgressMaxTime == 5200
\* events the goroutines of one JoinGroup write to the coordination stream
MaxMutexEvents == 4
\* messages the subscribed stream may grow to
MaxStream == 4
\* largest batch size a subscription is started with
MaxBatch == 2
\* largest version a subscription is started from
MaxFrom == 1
\* largest value of each read option validated
MaxOption == 2
\* the consecutive reads without messages a polling strategy is called for
MaxEmptyReads == 35
\* the same for each of two strategies called in turn
MaxInterleaved == 3

\* the horizon of the runs with other writers of the coordination stream
ForeignMaxTime == 3200

\* how many messages of another type get into the coordination stream
MaxUndecodable == 1

\* how many bursts of check-ins get into the coordination stream
MaxBursts == 1

\* ------------------------------------------------------ program constants

NoStreamVersion == -1
AnyVersion == -2
ZeroTime == -1
groupManagementPeriod == 1000
updateStatePeriod == 1000
checkinPeriod == 1000
checkinFirstDelay == 100
LeaseDuration == 5000
LeaseRenewMargin == 1000
StateBatchSize == 100
ReadBatchSize == 100
MilestoneSize == 100
Hour == 3600000
PollStep == 10
PollMin == 10
PollMax == 1000
DefaultBatchSize == 1000

\* checkIn: period * 1.1, "give 10% leeway"
CheckInLeeway(period) == (period * 11) \div 10

Consumers == {"c1", "c2"}

\* what stream names of the domain category hash to
Hashes == {0, 1}

\* a write to another stream moves the global position on by one of these
OtherJumps == {100}

\* when each consumer's JoinGroup may be called (the consumers are interchangeable)
JoinTimes(c) == IF c = "c1" THEN {0} ELSE {0, 100, 1000}

\* when the caller of the first consumer may cancel it, if it is to stop
StopTimes == {100, 1100, 2100}

\* when other clients write to the store while two consumers run
WriteTimes == {0, 1100}

\* when other clients write to the store while one consumer runs
SoloWriteTimes == {0, 2100}

\* when the caller of the second consumer may cancel it
DebtStopTimes == {1100}

\* the instants at which other writers write to the coordination stream
ForeignTimes == {1100, 2100}

\* the instant at which a member that runs elsewhere checks in first
ElsewhereTimes == {1100}

\* the instant at which its check-ins come in a burst
LateTimes == {2100}

\* a timer that is not armed
NoDeadline == -1

VARIABLES
    now,        \* the clock shared by all consumers
    gpos,       \* the store's next global position
    others,     \* writes to other streams so far
    log,        \* the coordination stream ("_group", group), version = index - 1
    category,   \* the messages of the domain category, in global position order
    lastWrite,  \* per consumer: its latest write to the coordination stream
    pc,         \* per consumer: "out" | "run" | "done"
    result,     \* per consumer: what JoinGroup returned
    cancelled,  \* per consumer: its context is cancelled
    gs,         \* per consumer: GroupState
    cs,         \* per consumer: ConsumerState
    delay,      \* per consumer: the DynamicPolling closure's delay
    timers,     \* per consumer: the four timers
    sig,        \* per consumer: the three do-now channels
    handled,    \* per consumer: global positions passed to the message handler
    batches,    \* per consumer: the versions its updateState batches ended at,
                \* the liveness its latest updateState returned, and the
                \* version of the last message it read
    stream,     \* the messages of the stream a client subscribes to, version = index - 1
    sub,        \* the subscription to it: SubscribeToStream's goroutine
    calls,      \* the calls the subscription made to its three handlers, in order
    ops,        \* the latest WriteMessage and GetStreamMessages on that stream
    opt,        \* the latest read options validated, and the result
    strat,      \* two polling strategies made from one factory, and their latest calls
    mu          \* JoinGroup with goroutines: its two mutexes, each goroutine's place,
                \* and what they share

\* the coordinators and the store as they see it
coordVars == <<now, gpos, others, log, category, lastWrite, pc, result, cancelled,
               gs, cs, delay, timers, sig, handled, batches>>

\* a subscription, and a stream and read options used on their own
subVars == <<stream, sub, calls, ops, opt>>

\* polling strategies used on their own
pollVars == <<strat>>

\* the goroutine-and-mutex JoinGroup
mutexVars == <<mu>>

vars == <<now, gpos, others, log, category, lastWrite, pc, result, cancelled,
          gs, cs, delay, timers, sig, handled, batches, stream, sub, calls, ops, opt,
          strat, mu>>

\* ----------------------------------------------------------------- maps

EmptyMap == [x \in {} |-> 0]

Put(f, k, v) == (k :> v) @@ f

Del(f, k) == IF k \in DOMAIN f THEN [x \in (DOMAIN f) \ {k} |-> f[x]] ELSE f

Min(S) == CHOOSE x \in S : \A y \in S : x <= y

\* all orders in which a Go range over a map with keys S may visit them
Orders(S) == {q \in [1..Cardinality(S) -> S] : \A i, j \in 1..Cardinality(S) : q[i] = q[j] => i = j}

RECURSIVE Flatten(_)
Flatten(ss) == IF ss = <<>> THEN <<>> ELSE Head(ss) \o Flatten(Tail(ss))

\* ------------------------------------------------------------ the store

\* the version of the coordination stream, -1 when it has no message
StreamVersion == Len(log) - 1

\* WriteMessage on the coordination stream: the store checks the expected
\* version unless it is AnyVersion, which is passed on as null
WriteAccepted(expected) == expected = AnyVersion \/ expected = StreamVersion

\* GetStreamMessages(FromVersion(from), WithStreamBatchSize(batch))
GetStreamMessages(from, batch) ==
    SubSeq(log, from + 1, IF Len(log) < from + batch THEN Len(log) ELSE from + batch)

\* the consumer group member a stream name hashes to
InPartition(m, member, size) == size = 0 \/ m.hash % size = member

RECURSIVE SelectCategory(_, _, _, _)
SelectCategory(msgs, from, member, size) ==
    IF msgs = <<>> THEN <<>>
    ELSE IF Head(msgs).gp >= from /\ InPartition(Head(msgs), member, size)
         THEN <<Head(msgs)>> \o SelectCategory(Tail(msgs), from, member, size)
         ELSE SelectCategory(Tail(msgs), from, member, size)

\* GetCategoryMessages(AsConsumerGroup(member, size), FromPosition(from),
\* WithCategoryBatchSize(batch))
GetCategoryMessages(member, size, from, batch) ==
    LET all == SelectCategory(category, from, member, size)
    IN  SubSeq(all, 1, IF Len(all) < batch THEN Len(all) ELSE batch)

\* ----------------------------------------------------- coordination events

NewGroupState ==
    [Version          |-> NoStreamVersion,
     Leader           |-> "",
     LeaderExpires    |-> ZeroTime,
     ActiveConsumers  |-> EmptyMap,
     IdleConsumers    |-> EmptyMap,
     CurrentMilestone |-> <<>>,
     HighWaterMark    |-> 0]

\* a consumer that starts with a milestone to complete
NewConsumerStateIncomplete(id) ==
    [ConsumerID        |-> id,
     CurrentPosition   |-> 0,
     MilestoneID       |-> 0,
     MilestoneComplete |-> FALSE,
     Debt              |-> <<>>,
     CheckedIn         |-> ZeroTime,
     NextCheckIn       |-> ZeroTime]

NewConsumerState(id) ==
    [ConsumerID        |-> id,
     CurrentPosition   |-> 0,
     MilestoneID       |-> 0,
     MilestoneComplete |-> TRUE,
     Debt              |-> <<>>,
     CheckedIn         |-> ZeroTime,
     NextCheckIn       |-> ZeroTime]

LeaderDeclaredApply(e, g, ver) ==
    [g EXCEPT !.Version = ver, !.Leader = e.ConsumerID, !.LeaderExpires = e.Until]

\* a check-in that leaves the consumer's entry in the other map
ConsumerCheckedInApplyNoDelete(e, g, ver) ==
    IF e.ConsumerState.MilestoneComplete
    THEN [g EXCEPT !.Version = ver,
                   !.IdleConsumers = Put(@, e.ConsumerState.ConsumerID, e.ConsumerState)]
    ELSE [g EXCEPT !.Version = ver,
                   !.ActiveConsumers = Put(@, e.ConsumerState.ConsumerID, e.ConsumerState)]

ConsumerCheckedInApply(e, g, ver) ==
    IF e.ConsumerState.MilestoneComplete
    THEN [g EXCEPT !.Version = ver,
                   !.IdleConsumers = Put(@, e.ConsumerState.ConsumerID, e.ConsumerState),
                   !.ActiveConsumers = Del(@, e.ConsumerState.ConsumerID)]
    ELSE [g EXCEPT !.Version = ver,
                   !.ActiveConsumers = Put(@, e.ConsumerState.ConsumerID, e.ConsumerState),
                   !.IdleConsumers = Del(@, e.ConsumerState.ConsumerID)]

MilestoneStartedApply(e, g, ver) ==
    [g EXCEPT !.Version = ver, !.CurrentMilestone = <<e.Milestone>>]

\* every Apply also records the event's global position
SetHighWaterMark(g, gp) == [g EXCEPT !.HighWaterMark = gp]

\* evt.Apply(gs, m.Version, m.GlobalPosition)
Apply(m, g, ver) ==
    SetHighWaterMark(
        CASE m.type = "LeaderDeclared"    -> LeaderDeclaredApply(m, g, ver)
          [] m.type = "ConsumerCheckedIn" -> ConsumerCheckedInApply(m, g, ver)
          [] m.type = "MilestoneStarted"  -> MilestoneStartedApply(m, g, ver),
        m.gp)

\* a fold that numbers the messages by their place in the batch
RECURSIVE ApplyCounting(_, _, _)
ApplyCounting(g, msgs, k) ==
    IF msgs = <<>> THEN g
    ELSE ApplyCounting(Apply(Head(msgs), g, k), Tail(msgs), k + 1)

ApplyBatchByIndex(g, msgs, from) == ApplyCounting(g, msgs, 0)

\* the types of the coordination events
EventTypes == {"LeaderDeclared", "ConsumerCheckedIn", "MilestoneStarted"}

\* eventFromMessage(m): the error it returns; json is what the message's data
\* holds, and only an object unmarshals into an event
eventFromMessage(m) ==
    IF m.type \notin EventTypes THEN "unknown event type"
    ELSE IF m.json # "object" THEN "unmarshalling event"
    ELSE "nil"

\* the body of updateState's loop for the message m of version ver: a message
\* that does not decode is passed over
ApplyOne(g, m, ver) ==
    IF eventFromMessage(m) # "nil" THEN g ELSE Apply(m, g, ver)

\* the loop over the messages lo..hi of a batch whose first message has
\* version from: the first half is computed, then the second half from it
RECURSIVE ApplyRange(_, _, _, _, _)
ApplyRange(g, msgs, from, lo, hi) ==
    IF lo > hi THEN g
    ELSE IF lo = hi THEN ApplyOne(g, msgs[lo], from + lo - 1)
    ELSE LET mid  == (lo + hi) \div 2
             half == ApplyRange(g, msgs, from, lo, mid)
         IN  IF half = g THEN ApplyRange(g, msgs, from, mid + 1, hi)
             ELSE ApplyRange(half, msgs, from, mid + 1, hi)

\* a fold that leaves the version one beyond the last event read
ApplyBatchAhead(g, msgs, from) ==
    [ApplyRange(g, msgs, from, 1, Len(msgs)) EXCEPT
        !.Version = IF msgs = <<>> THEN @ ELSE @ + 1]

\* the loop of updateState over one batch, whose first message has version from
ApplyBatch(g, msgs, from) == ApplyRange(g, msgs, from, 1, Len(msgs))

\* ------------------------------------------------------------ milestones

\* a consumer that starts a milestone as if it had completed it
initialStateForComplete(ms, id) ==
    [ConsumerID        |-> id,
     CurrentPosition   |-> ms.From - 1,
     MilestoneID       |-> ms.ID,
     MilestoneComplete |-> TRUE,
     Debt              |-> <<>>,
     CheckedIn         |-> ZeroTime,
     NextCheckIn       |-> ZeroTime]

\* Milestone.initialStateFor
initialStateFor(ms, id) ==
    [ConsumerID        |-> id,
     CurrentPosition   |-> ms.From - 1,
     MilestoneID       |-> ms.ID,
     MilestoneComplete |-> FALSE,
     Debt              |-> IF id \in DOMAIN ms.Debt
                           THEN [i \in 1..Len(ms.Debt[id]) |->
                                   [GroupSize       |-> ms.Debt[id][i].GroupSize,
                                    Partition       |-> ms.Debt[id][i].Partition,
                                    From            |-> ms.Debt[id][i].From,
                                    End             |-> ms.Debt[id][i].End,
                                    CurrentPosition |-> ms.Debt[id][i].From - 1,
                                    DebtCleared     |-> FALSE]]
                           ELSE <<>>,
     CheckedIn         |-> ZeroTime,
     NextCheckIn       |-> ZeroTime]

\* GroupState.activeConsumersHaveExpired
activeConsumersHaveExpired(g) ==
    ~ \E id \in DOMAIN g.ActiveConsumers : g.ActiveConsumers[id].NextCheckIn > now

\* GroupState.thereAreIdleConsumers
thereAreIdleConsumers(g) ==
    \E id \in DOMAIN g.IdleConsumers :
        \/ g.CurrentMilestone = <<>>
        \/ g.IdleConsumers[id].MilestoneID = g.CurrentMilestone[1].ID
        \/ g.IdleConsumers[id].MilestoneID = 0

\* a Go map read: the zero value when the key is absent
SlotOf(ms, id) == IF id \in DOMAIN ms.Partitions THEN ms.Partitions[id] ELSE 0

\* ----------------------------------------------------- polling strategy

\* the closure DynamicPolling(0.5, 10ms, 10ms, 1s)() returns: d is its delay
\* variable; the result is the delay to wait and the closure's new delay
DynamicPolling(d, retrieved, expected) ==
    IF retrieved = expected THEN [wait |-> 0, delay |-> d]
    ELSE LET adj == IF 2 * retrieved < expected THEN d + PollStep
                    ELSE IF 2 * retrieved > expected THEN d - PollStep
                    ELSE d
             cl  == IF adj > PollMax THEN PollMax
                    ELSE IF adj < PollMin THEN PollMin
                    ELSE adj
         IN  [wait |-> cl, delay |-> cl]

\* ------------------------------------------------- 64-bit durations

\* a natural number as the sequence of its bytes, the lowest first, and an
\* int64 (time.Duration, in nanoseconds) as 8 bytes in two's complement
RECURSIVE NatOf(_)
NatOf(k) == IF k = 0 THEN <<>> ELSE <<k % 256>> \o NatOf(k \div 256)

RECURSIVE Trim(_)
Trim(x) ==
    IF x = <<>> THEN <<>>
    ELSE IF x[Len(x)] = 0 THEN Trim(SubSeq(x, 1, Len(x) - 1))
    ELSE x

RECURSIVE AddNat(_, _, _)
AddNat(x, y, carry) ==
    IF x = <<>> /\ y = <<>> THEN NatOf(carry)
    ELSE LET a == IF x = <<>> THEN 0 ELSE Head(x)
             b == IF y = <<>> THEN 0 ELSE Head(y)
             t == a + b + carry
         IN  <<t % 256>> \o AddNat(IF x = <<>> THEN <<>> ELSE Tail(x),
                                   IF y = <<>> THEN <<>> ELSE Tail(y), t \div 256)

RECURSIVE MulSmall(_, _, _)
MulSmall(x, k, carry) ==
    IF x = <<>> THEN NatOf(carry)
    ELSE LET t == Head(x) * k + carry
         IN  <<t % 256>> \o MulSmall(Tail(x), k, t \div 256)

RECURSIVE MulNat(_, _)
MulNat(x, y) ==
    IF y = <<>> THEN <<>>
    ELSE AddNat(MulSmall(x, Head(y), 0), <<0>> \o MulNat(x, Tail(y)), 0)

\* x divided by the small number k: the quotient and the remainder
RECURSIVE DivSmall(_, _)
DivSmall(x, k) ==
    IF x = <<>> THEN [q |-> <<>>, r |-> 0]
    ELSE LET hi == DivSmall(Tail(x), k)
             t  == hi.r * 256 + Head(x)
         IN  [q |-> <<t \div k>> \o hi.q, r |-> t % k]

RECURSIVE LessTrimmed(_, _)
LessTrimmed(x, y) ==
    IF Len(x) # Len(y) THEN Len(x) < Len(y)
    ELSE IF x = <<>> THEN FALSE
    ELSE IF x[Len(x)] # y[Len(y)] THEN x[Len(x)] < y[Len(y)]
    ELSE LessTrimmed(SubSeq(x, 1, Len(x) - 1), SubSeq(y, 1, Len(y) - 1))

LessNat(x, y) == LessTrimmed(Trim(x), Trim(y))

\* the low 64 bits of a natural number
Int64(x) == [i \in 1..8 |-> IF i <= Len(x) THEN x[i] ELSE 0]

Negative(a) == a[8] >= 128

\* a + b, a * b and -a in 64 bits
AddInt64(a, b) == Int64(AddNat(a, b, 0))

MulInt64(a, b) == Int64(MulNat(a, b))

NegInt64(a) == Int64(AddNat([i \in 1..8 |-> 255 - a[i]], <<>>, 1))

\* a < b for int64
LessInt64(a, b) ==
    IF Negative(a) # Negative(b) THEN Negative(a) ELSE LessNat(a, b)

\* time.Millisecond and time.Second, in nanoseconds
Millisecond == Int64(NatOf(1000000))

Second == MulInt64(Int64(NatOf(1000)), Millisecond)

Milliseconds(k) == MulInt64(Int64(NatOf(k)), Millisecond)

\* 2^63 as a natural number: the first value that is no int64
TwoTo63 == <<0, 0, 0, 0, 0, 0, 0, 128>>

Zero64 == Int64(<<>>)

\* ---------------------------------------------------- polling strategies

RECURSIVE PowNat(_, _)
PowNat(k, n) == IF n = 0 THEN <<1>> ELSE MulSmall(PowNat(k, n - 1), k, 0)

RECURSIVE DivTimes(_, _, _)
DivTimes(x, k, n) ==
    IF n = 0 \/ x = <<>> THEN x
    ELSE LET q == Trim(DivSmall(x, k).q)
         IN  IF q = <<>> THEN q ELSE DivTimes(q, k, n - 1)

\* the integer part of math.Pow(num/den, n), for a multiplier num/den >= 1
\* whose powers float64 holds exactly or that are far above max/min
PowTruncated(num, den, n) == Trim(DivTimes(PowNat(num, n), den, n))

\* what the conversion of a float64 that is no int64 gives: the lowest int64
\* on amd64, the highest on arm64
FloatOutOfRange == {"MinInt64", "MaxInt64"}

\* time.Duration(x) for a float64 x >= 0 with integer part whole
DurationOfFloat(whole, conv) ==
    IF LessNat(whole, TwoTo63) THEN Int64(whole)
    ELSE IF conv = "MinInt64" THEN Int64(TwoTo63)
    ELSE [i \in 1..8 |-> IF i = 8 THEN 127 ELSE 255]

\* the conversions the build may make of whole
Conversions(whole) == IF LessNat(whole, TwoTo63) THEN {"exact"} ELSE FloatOutOfRange

\* ExpBackoffPolling(min, max, num/den)(): the closure's variable
NewExpBackoff(f) == [noMessageCount |-> 0, delay |-> Zero64]

\* the closure ExpBackoffPolling(min, max, num/den)() returns, called with
\* (retrieved, expected): what it returns and its variable afterwards
ExpBackoffPolling(f, st, retrieved, expected, conv) ==
    IF retrieved = expected
    THEN [ret |-> Zero64, st |-> [st EXCEPT !.noMessageCount = 0]]
    ELSE IF retrieved > 0
    THEN [ret |-> f.min, st |-> [st EXCEPT !.noMessageCount = 0]]
    ELSE LET pow     == DurationOfFloat(PowTruncated(f.num, f.den, st.noMessageCount), conv)
             backoff == MulInt64(pow, f.min)
         IN  [ret |-> IF LessInt64(f.max, backoff) THEN f.max ELSE backoff,
              st  |-> [st EXCEPT !.noMessageCount = @ + 1]]

\* DynamicPolling(num/den, step, min, max)(): the closure's variables
NewDynamic(f) == [noMessageCount |-> 0, delay |-> f.min]

\* a dynamic strategy that does not clamp its delay
DynamicPollingUnclamped(f, st, retrieved, expected) ==
    IF retrieved = expected THEN [ret |-> Zero64, st |-> st]
    ELSE LET adj == IF retrieved * f.den < f.num * expected
                    THEN AddInt64(st.delay, f.step)
                    ELSE IF retrieved * f.den > f.num * expected
                    THEN AddInt64(st.delay, NegInt64(f.step))
                    ELSE st.delay
         IN  [ret |-> adj, st |-> [st EXCEPT !.delay = adj]]

\* the closure DynamicPolling(num/den, step, min, max)() returns, called with
\* (retrieved, expected); float64(retrieved)/float64(expected) is compared
\* with the target num/den
DynamicPollingStrategy(f, st, retrieved, expected) ==
    IF retrieved = expected THEN [ret |-> Zero64, st |-> st]
    ELSE LET adj == IF retrieved * f.den < f.num * expected
                    THEN AddInt64(st.delay, f.step)
                    ELSE IF retrieved * f.den > f.num * expected
                    THEN AddInt64(st.delay, NegInt64(f.step))
                    ELSE st.delay
             cl  == IF LessInt64(f.max, adj) THEN f.max
                    ELSE IF LessInt64(adj, f.min) THEN f.min
                    ELSE adj
         IN  [ret |-> cl, st |-> [st EXCEPT !.delay = cl]]

\* the factories made: ExpBackoffPolling(time.Second, 10*time.Second, 2) as
\* in the tests, the same with multiplier 1.5, and DynamicPolling(0.75,
\* 50*time.Millisecond, 100*time.Millisecond, 250*time.Millisecond)
Factories ==
    {[kind |-> "ExpBackoff", min |-> Second, max |-> MulInt64(Int64(NatOf(10)), Second),
      num |-> 2, den |-> 1, step |-> Zero64],
     [kind |-> "ExpBackoff", min |-> Second, max |-> MulInt64(Int64(NatOf(10)), Second),
      num |-> 3, den |-> 2, step |-> Zero64],
     [kind |-> "Dynamic", min |-> Milliseconds(100), max |-> Milliseconds(250),
      num |-> 3, den |-> 4, step |-> Milliseconds(50)]}

\* no factory made yet
NoFactory ==
    [kind |-> "none", min |-> Zero64, max |-> Zero64, num |-> 1, den |-> 1, step |-> Zero64]

\* the strategies made from one factory, one for each of two subscriptions
Strategies == {"s1", "s2"}

\* both strategies keeping their variables in one place
cellShared(s) == "s1"

\* the variables of a closure are made anew by each call of the factory
cellOf(s) == s

\* factory(): the variables of a strategy just made
NewStrategy(f) == IF f.kind = "ExpBackoff" THEN NewExpBackoff(f) ELSE NewDynamic(f)

\* a call of a strategy made from factory f
CallStrategy(f, st, retrieved, expected, conv) ==
    IF f.kind = "ExpBackoff" THEN ExpBackoffPolling(f, st, retrieved, expected, conv)
    ELSE DynamicPollingStrategy(f, st, retrieved, expected)

\* no call of a strategy made yet
NoPoll ==
    [retrieved |-> -1, expected |-> -1, ret |-> Zero64, alone |-> Zero64,
     run |-> 0, empties |-> 0, before |-> Zero64]

\* no strategies made yet
NoStrategies ==
    [factory |-> NoFactory,
     cells   |-> [s \in Strategies |-> NewStrategy(NoFactory)],
     twins   |-> [s \in Strategies |-> NewStrategy(NoFactory)],
     last    |-> [s \in Strategies |-> NoPoll]]

\* ------------------------------------------------------------- timers

\* a timer's channel holds a value: one sent earlier and not yet received, or
\* its deadline has come
Ready(t) == t.pend \/ (t.at # NoDeadline /\ t.at <= now)

\* the select case received from the timer's channel, then Reset(d)
ResetReceived(t, d) == [at |-> now + d, pend |-> FALSE]

\* Reset(d) without a receive: a value already sent stays in the channel
ResetOnly(t, d) == [at |-> now + d, pend |-> Ready(t)]

NewTimer(d) == [at |-> now + d, pend |-> FALSE]

\* NewTimer(0) followed by a receive from its channel
DrainedTimer == [at |-> NoDeadline, pend |-> FALSE]

\* the select case taken: its timer (via = "timer") or its do-now channel
CaseReady(c, name, via) ==
    IF via = "timer" THEN Ready(timers[c][name]) ELSE sig[c][name]

ResetAfter(c, name, via, d) ==
    IF via = "timer" THEN ResetReceived(timers[c][name], d)
    ELSE ResetOnly(timers[c][name], d)

\* some case of c's select is ready
SelectReady(c) ==
    \/ cancelled[c]
    \/ \E n \in {"update", "checkin", "manage"} : sig[c][n]
    \/ \E n \in {"update", "checkin", "manage", "read"} : Ready(timers[c][n])

NoTimers ==
    [update |-> DrainedTimer, checkin |-> DrainedTimer,
     manage |-> DrainedTimer, read |-> DrainedTimer]

NoSignals == [update |-> FALSE, checkin |-> FALSE, manage |-> FALSE]

\* ---------------------------------------------------------- read options

\* streamConfig.validate
streamConfigValidate(version, batchSize) ==
    IF version < 0 THEN "ErrInvalidReadStreamVersion"
    ELSE IF batchSize < 1 THEN "ErrInvalidReadBatchSize"
    ELSE "nil"

\* the member and size checks taken in the other order
categoryConfigValidateSizeFirst(cfg) ==
    IF cfg.position < 0 THEN "ErrInvalidReadPosition"
    ELSE IF cfg.batchSize < 1 THEN "ErrInvalidReadBatchSize"
    ELSE IF cfg.consumerGroupSize < 0 THEN "ErrInvalidConsumerGroupSize"
    ELSE IF \/ cfg.consumerGroupMember < 0
            \/ (cfg.consumerGroupSize > 0 /\ cfg.consumerGroupMember >= cfg.consumerGroupSize)
         THEN "ErrInvalidConsumerGroupMember"
    ELSE "nil"

\* categoryConfig.validate
categoryConfigValidate(cfg) ==
    IF cfg.position < 0 THEN "ErrInvalidReadPosition"
    ELSE IF cfg.batchSize < 1 THEN "ErrInvalidReadBatchSize"
    ELSE IF \/ cfg.consumerGroupMember < 0
            \/ (cfg.consumerGroupSize > 0 /\ cfg.consumerGroupMember >= cfg.consumerGroupSize)
         THEN "ErrInvalidConsumerGroupMember"
    ELSE IF cfg.consumerGroupSize < 0 THEN "ErrInvalidConsumerGroupSize"
    ELSE "nil"

\* the read options tried
CategoryConfigs ==
    [position : -1..MaxOption, batchSize : -1..MaxOption,
     consumerGroupMember : -1..MaxOption, consumerGroupSize : -1..MaxOption]

\* the options of the category reads callers make
RequestConfigs ==
    [position : -1..0, batchSize : 0..1,
     consumerGroupMember : {0}, consumerGroupSize : {0}]

\* no options validated yet
NoOptions ==
    [cfg |-> [position |-> 0, batchSize |-> DefaultBatchSize,
              consumerGroupMember |-> 0, consumerGroupSize |-> 0],
     err |-> "none"]

\* ------------------------------------------------------- request inputs

\* StreamNameSeparator; a category is the sequence of its characters
StreamNameSeparator == "-"

\* strings.Contains(s, sep) for a separator of one character
Contains(s, sep) == \E i \in 1..Len(s) : s[i] = sep

\* StreamIdentifier.validate
StreamIdentifierValidate(si) ==
    IF si.Category = <<>> THEN "ErrMissingCategory"
    ELSE IF Contains(si.Category, StreamNameSeparator) THEN "ErrInvalidCategory"
    ELSE IF si.ID = "" THEN "ErrMissingStreamID"
    ELSE "nil"

\* a validation that takes a message without data
ProposedMessageValidateNoData(pm) ==
    IF pm.ID = "" THEN "ErrInvalidMessageID"
    ELSE IF pm.Type = "" THEN "ErrMissingType"
    ELSE "nil"

\* ProposedMessage.validate; Data is <<>> for nil
ProposedMessageValidate(pm) ==
    IF pm.ID = "" THEN "ErrInvalidMessageID"
    ELSE IF pm.Type = "" THEN "ErrMissingType"
    ELSE IF pm.Data = <<>> THEN "ErrMissingData"
    ELSE "nil"

\* the stream the clients write to and read, and its category
TheCategory == <<"c", "a", "t">>

TheStream == [Category |-> TheCategory, ID |-> "s1"]

\* the stream identifiers callers pass: the stream's, and it with one fault
StreamIdentifiers ==
    {TheStream,
     [TheStream EXCEPT !.Category = <<>>],
     [TheStream EXCEPT !.Category = <<"c", "-", "t">>],
     [TheStream EXCEPT !.ID = ""]}

\* a message with id, of the type and with the data the tests write
TestMessage(id) == [ID |-> id, Type |-> "TestMessage", Data |-> <<"data">>]

\* the messages callers propose: a valid one, and it with one fault
ProposedMessages ==
    {TestMessage("a"),
     [TestMessage("a") EXCEPT !.ID = ""],
     [TestMessage("a") EXCEPT !.Type = ""],
     [TestMessage("a") EXCEPT !.Data = <<>>]}

\* ------------------------------------------------- one stream of the store

\* GetStreamVersion: stream_version is null for a stream without messages
GetStreamVersion(msgs) == IF msgs = <<>> THEN NoStreamVersion ELSE msgs[Len(msgs)].version

\* the expected version handed to write_message as it is, AnyVersion included
expectedVersionAsGiven(expected) == <<expected>>

\* "set expected version to nil to skip OCC check": <<>> stands for nil
expectedVersionParam(expected) ==
    IF expected = AnyVersion THEN <<>> ELSE <<expected>>

\* write_message raises "Wrong expected version" unless the expected version
\* is null or the stream's version, -1 for a stream without messages
wrongExpectedVersion(ev, msgs) == ev # <<>> /\ ev[1] # GetStreamVersion(msgs)

\* what WriteMessage returns
WriteMessageResult(msgs, expected) ==
    IF wrongExpectedVersion(expectedVersionParam(expected), msgs)
    THEN [rev |-> 0, err |-> "ErrUnexpectedStreamVersion"]
    ELSE [rev |-> GetStreamVersion(msgs) + 1, err |-> "nil"]

\* a read that starts after the version asked for, not at it
GetStreamMessagesAfter(msgs, version, batchSize) ==
    IF streamConfigValidate(version, batchSize) # "nil"
    THEN [msgs |-> <<>>, err |-> streamConfigValidate(version, batchSize)]
    ELSE [msgs |-> SubSeq(msgs, version + 2,
                          IF Len(msgs) < version + 1 + batchSize THEN Len(msgs)
                          ELSE version + 1 + batchSize),
          err  |-> "nil"]

\* GetStreamMessages(stream, FromVersion(version), WithStreamBatchSize(batchSize))
\* on the stream with messages msgs
GetStreamMessagesOf(msgs, version, batchSize) ==
    IF streamConfigValidate(version, batchSize) # "nil"
    THEN [msgs |-> <<>>, err |-> streamConfigValidate(version, batchSize)]
    ELSE [msgs |-> SubSeq(msgs, version + 1,
                          IF Len(msgs) < version + batchSize THEN Len(msgs)
                          ELSE version + batchSize),
          err  |-> "nil"]

\* the validation WriteMessage starts with: the stream identifier, then the
\* message
WriteMessageValidate(si, pm) ==
    IF StreamIdentifierValidate(si) # "nil" THEN StreamIdentifierValidate(si)
    ELSE ProposedMessageValidate(pm)

\* the validation GetStreamMessages and SubscribeToStream start with: the
\* stream identifier, then the options
StreamReadValidate(si, version, batchSize) ==
    IF StreamIdentifierValidate(si) # "nil" THEN StreamIdentifierValidate(si)
    ELSE streamConfigValidate(version, batchSize)

\* the validation GetCategoryMessages starts with: the category, then the
\* options
CategoryReadValidate(cat, cfg) ==
    IF Contains(cat, StreamNameSeparator) THEN "category cannot contain stream name separator"
    ELSE categoryConfigValidate(cfg)

\* get_category_messages on the category of the one stream, whose messages
\* have the global positions 1, 2, ... and whose name hashes to h
GetCategoryMessagesOf(msgs, cat, cfg, h) ==
    IF CategoryReadValidate(cat, cfg) # "nil"
    THEN [msgs |-> <<>>, err |-> CategoryReadValidate(cat, cfg)]
    ELSE IF \/ cat # TheCategory
            \/ (cfg.consumerGroupSize > 0 /\ h % cfg.consumerGroupSize # cfg.consumerGroupMember)
    THEN [msgs |-> <<>>, err |-> "nil"]
    ELSE LET first == IF cfg.position < 1 THEN 1 ELSE cfg.position
             last  == IF Len(msgs) < first + cfg.batchSize - 1 THEN Len(msgs)
                      ELSE first + cfg.batchSize - 1
         IN  [msgs |-> SubSeq(msgs, first, last), err |-> "nil"]

\* no WriteMessage and no read made yet; queried: the call reached the store
NoOps ==
    [w |-> [si |-> TheStream, type |-> "", data |-> <<>>, expected |-> AnyVersion,
            was |-> <<>>, id |-> "", rev |-> 0, err |-> "none", queried |-> FALSE],
     r |-> [kind |-> "none", si |-> TheStream, version |-> 0,
            batchSize |-> DefaultBatchSize, msgs |-> <<>>, err |-> "none",
            queried |-> FALSE]]

\* --------------------------------------------------------- a subscription

\* no read made yet by the subscription
NoRead == [n |-> -1, wasLive |-> FALSE, base |-> 0]

\* SubscribeToStream not called yet
NoSubscription ==
    [pc        |-> "none",     \* "none" | "refused" | "run" | "stopped" | "panicked"
     ctx       |-> "live",     \* "live" | "canceled"
     version   |-> 0,          \* cfg.version, the cursor
     batchSize |-> DefaultBatchSize,
     live      |-> FALSE,
     ticks     |-> "none",     \* poll: "periodic" | "one" (tick left) | "none"
     reset0    |-> "panics",   \* what poll.Reset(0) does in this build
     from      |-> 0,          \* the version it was started from
     startLen  |-> 0,          \* the stream's length when it was started
     firstN    |-> -1,         \* the number of messages its first read returned
     last      |-> NoRead,     \* its latest read
     ret       |-> "none",     \* what SubscribeToStream returned
     cause     |-> "none",     \* why it stopped: "cancel" | "read"
     err       |-> "nil"]      \* the read error it stopped on

\* a call to the message handler, the liveness handler, the dropped handler
MessageCall(m) == [h |-> "message", version |-> m.version, arg |-> m.id]

LivenessCall(live) == [h |-> "liveness", version |-> -1, arg |-> IF live THEN "true" ELSE "false"]

DroppedCall(e) == [h |-> "dropped", version |-> -1, arg |-> e]

\* ---------------------------------------------------------- ObserveGroup

GroupCategory == <<"_", "g", "r", "o", "u", "p">>

\* the coordination stream of the group observed
GroupStream == [Category |-> GroupCategory, ID |-> "g1"]

\* the data of a message whose JSON is the object evt
JSONObject(evt) == <<evt @@ [json |-> "object"]>>

\* the data of a message whose JSON is a string
JSONString == <<[json |-> "string"]>>

\* the messages written to the coordination stream: two events of the group,
\* a message of another type, and an event whose data does not unmarshal
CoordinationMessages ==
    {[ID |-> "a", Type |-> "LeaderDeclared",
      Data |-> JSONObject([ConsumerID |-> "c1", Until |-> 1])],
     [ID |-> "a", Type |-> "ConsumerCheckedIn",
      Data |-> JSONObject([ConsumerState |-> NewConsumerStateIncomplete("c1")])],
     [ID |-> "a", Type |-> "TestMessage",
      Data |-> JSONObject([ConsumerID |-> "c1", Until |-> 1])],
     [ID |-> "a", Type |-> "LeaderDeclared", Data |-> JSONString]}

\* a message of the coordination stream as eventFromMessage and Apply take
\* it; the stream is the only one of the store, so that a message's global
\* position is its version plus 1
MessageOf(m) == m.data[1] @@ [type |-> m.type, version |-> m.version, gp |-> m.version + 1]

\* a state handler that is given the state as it was before the event
stateHandlerArgBefore(before, after) == before

\* evt.Apply(gs, ...); stateHandler(gs, evt, live): the handler sees the
\* state the event was applied to
stateHandlerArg(before, after) == after

\* ObserveGroup's variables: gs, whose Version is left at zero, live, and the
\* calls of the state handler
NoObserver ==
    [gs |-> [NewGroupState EXCEPT !.Version = 0], live |-> FALSE, said |-> <<>>]

\* one call of ObserveGroup's handlers by the subscription
ObserveCall(o, call, msgs) ==
    IF call.h = "liveness" THEN [o EXCEPT !.live = (call.arg = "true")]
    ELSE IF call.h = "message"
    THEN LET m == MessageOf(msgs[call.version + 1])
         IN  IF eventFromMessage(m) # "nil" THEN o
             ELSE [o EXCEPT
                     !.gs   = Apply(m, o.gs, m.version),
                     !.said = Append(@, [gs      |-> stateHandlerArg(o.gs, Apply(m, o.gs, m.version)),
                                         version |-> m.version,
                                         type    |-> m.type,
                                         live    |-> o.live])]
    ELSE o

RECURSIVE ObserveCalls(_, _, _)
ObserveCalls(o, made, msgs) ==
    IF made = <<>> THEN o
    ELSE ObserveCalls(ObserveCall(o, Head(made), msgs), Tail(made), msgs)

\* ------------------------------------------------------------ JoinGroup

\* no updateState made yet
NoBatches == [ends |-> {}, live |-> FALSE, last |-> NoStreamVersion]

\* no write made yet
NoWrite == [expected |-> NoStreamVersion, err |-> "none", appended |-> FALSE, at |-> ZeroTime]

\* the goroutines of one JoinGroup: the state subscription with its handler,
\* the leader goroutine, the check-in goroutine, and the dispatch loop
Goroutines == {"subscription", "leader", "checkin", "dispatch"}

\* gs and cs as the goroutines use them: the version of the last event
\* applied, whether this consumer is leader, idle or active, whether there is
\* a current milestone, and cs.MilestoneComplete
NewShared ==
    [Version |-> NoStreamVersion, leader |-> FALSE, idle |-> FALSE, active |-> FALSE,
     milestone |-> FALSE, complete |-> TRUE]

\* JoinGroup before its goroutines have taken a step
NoGoroutines ==
    [gsMtx    |-> "none",
     csMtx    |-> "none",
     at       |-> [g \in Goroutines |-> IF g = "subscription" THEN "poll" ELSE "wait"],
     live     |-> FALSE,
     events   |-> <<>>,
     read     |-> 0,
     batchEnd |-> 0,
     evt      |-> [type |-> "none", complete |-> TRUE],
     shared   |-> NewShared,
     panicked |-> FALSE]

Init ==
    /\ now = 0
    /\ gpos = 1
    /\ others = 0
    /\ log = <<>>
    /\ category = <<>>
    /\ lastWrite = [c \in Consumers |-> NoWrite]
    /\ pc = [c \in Consumers |-> "out"]
    /\ result = [c \in Consumers |-> "none"]
    /\ cancelled = [c \in Consumers |-> FALSE]
    /\ gs = [c \in Consumers |-> NewGroupState]
    /\ cs = [c \in Consumers |-> NewConsumerState(c)]
    /\ delay = [c \in Consumers |-> PollMin]
    /\ timers = [c \in Consumers |-> NoTimers]
    /\ sig = [c \in Consumers |-> NoSignals]
    /\ handled = [c \in Consumers |-> <<>>]
    /\ batches = [c \in Consumers |-> NoBatches]
    /\ stream = <<>>
    /\ sub = NoSubscription
    /\ calls = <<>>
    /\ ops = NoOps
    /\ opt = NoOptions
    /\ strat = NoStrategies
    /\ mu = NoGoroutines

\* JoinGroup up to its loop
Join(c) ==
    /\ pc[c] = "out"
    /\ now \in JoinTimes(c)
    /\ pc' = [pc EXCEPT ![c] = "run"]
    /\ gs' = [gs EXCEPT ![c] = NewGroupState]
    /\ cs' = [cs EXCEPT ![c] = NewConsumerState(c)]
    /\ delay' = [delay EXCEPT ![c] = PollMin]
    /\ timers' = [timers EXCEPT ![c] =
                    [update  |-> NewTimer(0),
                     checkin |-> NewTimer(checkinFirstDelay),
                     manage  |-> DrainedTimer,
                     read    |-> DrainedTimer]]
    /\ UNCHANGED <<now, gpos, others, log, category, lastWrite, result, cancelled, sig,
                   handled, batches>>
    /\ UNCHANGED subVars
    /\ UNCHANGED <<pollVars, mutexVars>>

\* JoinGroup returns r: "nil", "err" (outerr) or "panic"; its local
\* variables and timers are gone with it
Return(c, r) ==
    /\ pc' = [pc EXCEPT ![c] = "done"]
    /\ result' = [result EXCEPT ![c] = r]
    /\ gs' = [gs EXCEPT ![c] = NewGroupState]
    /\ cs' = [cs EXCEPT ![c] = NewConsumerState(c)]
    /\ delay' = [delay EXCEPT ![c] = PollMin]
    /\ timers' = [timers EXCEPT ![c] = NoTimers]
    /\ sig' = [sig EXCEPT ![c] = NoSignals]
    /\ batches' = [batches EXCEPT ![c] = NoBatches]

\* case <-ctx.Done(): return nil
CtxDone(c) ==
    /\ pc[c] = "run"
    /\ cancelled[c]
    /\ Return(c, "nil")
    /\ UNCHANGED <<now, gpos, others, log, category, lastWrite, cancelled, handled>>
    /\ UNCHANGED subVars
    /\ UNCHANGED <<pollVars, mutexVars>>

\* WriteMessage(groupStream, evt, expected) by c: with ok the store appends
\* the event and WriteMessage returns a nil error, else the store answers
\* "Wrong expected version" and WriteMessage returns ErrUnexpectedStreamVersion
WriteEvent(c, evt, expected, ok) ==
    IF ok
    THEN /\ Len(SelectSeq(log, LAMBDA e : e.by \in Consumers)) < MaxEvents
         /\ log' = Append(log, evt @@ [gp |-> gpos, by |-> c, at |-> now,
                                       expected |-> expected, json |-> "object"])
         /\ gpos' = gpos + 1
         /\ lastWrite' = [lastWrite EXCEPT ![c] =
                            [expected |-> expected, err |-> "nil", appended |-> TRUE, at |-> now]]
    ELSE /\ UNCHANGED <<log, gpos>>
         /\ lastWrite' = [lastWrite EXCEPT ![c] =
                            [expected |-> expected, err |-> "ErrUnexpectedStreamVersion",
                             appended |-> FALSE, at |-> now]]

\* the error of WriteMessage(groupStream, evt, expected) by c: the context's
\* when it is cancelled, else the store's answer
writeError(c, expected) ==
    IF cancelled[c] THEN "context canceled"
    ELSE IF WriteAccepted(expected) THEN "nil"
    ELSE "ErrUnexpectedStreamVersion"

\* a handler that returns every error of WriteMessage
outerrOfAny(err) == IF err = "nil" THEN "nil" ELSE "err"

\* the error checkIn and manageGroup return for error err of WriteMessage:
\* nil for ErrUnexpectedStreamVersion, the wrapped error for any other
outerrOf(err) ==
    IF err = "nil" \/ err = "ErrUnexpectedStreamVersion" THEN "nil" ELSE "err"

\* WriteMessage by c failed with err, which ends JoinGroup
WriteFailed(c, expected, err) ==
    /\ UNCHANGED <<log, gpos>>
    /\ lastWrite' = [lastWrite EXCEPT ![c] =
                       [expected |-> expected, err |-> err, appended |-> FALSE, at |-> now]]
    /\ Return(c, "err")

\* ---------------------------------------------------------- updateState

\* case <-updateStateNow / <-updateStateTimer.C, and the switch after it
UpdateState(c, via) ==
    /\ pc[c] = "run"
    /\ CaseReady(c, "update", via)
    /\ IF cancelled[c]
       THEN /\ Return(c, "err")
            /\ UNCHANGED <<now, gpos, others, log, category, lastWrite, cancelled, handled>>
       ELSE LET msgs    == GetStreamMessages(gs[c].Version + 1, StateBatchSize)
                g2      == ApplyBatch(gs[c], msgs, gs[c].Version + 1)
                updated == msgs # <<>>
                ms      == \E i \in 1..Len(msgs) :
                              /\ eventFromMessage(msgs[i]) = "nil"
                              /\ msgs[i].type = "MilestoneStarted"
                live    == Len(msgs) # StateBatchSize
                manage  == live /\ (updated \/ g2.Version = NoStreamVersion)
            IN  /\ gs' = [gs EXCEPT ![c] = g2]
                /\ cs' = IF manage /\ ms
                         THEN [cs EXCEPT ![c] = initialStateFor(g2.CurrentMilestone[1], c)]
                         ELSE cs
                /\ sig' = [sig EXCEPT ![c] =
                             [update  |-> IF via = "now" THEN FALSE ELSE @.update,
                              checkin |-> @.checkin \/ (manage /\ ms),
                              manage  |-> @.manage \/ manage]]
                /\ timers' = [timers EXCEPT ![c] =
                                [@ EXCEPT !.update = ResetAfter(c, "update", via, updateStatePeriod),
                                          !.read = IF manage /\ ms THEN ResetOnly(@, 0) ELSE @]]
                /\ batches' = [batches EXCEPT ![c] =
                                 [ends |-> IF updated THEN @.ends \cup {g2.Version}
                                           ELSE @.ends,
                                  live |-> live,
                                  last |-> IF updated THEN gs[c].Version + Len(msgs)
                                           ELSE @.last]]
                /\ UNCHANGED <<now, gpos, others, log, category, lastWrite, pc,
                               result, cancelled, delay, handled>>
    /\ UNCHANGED subVars
    /\ UNCHANGED <<pollVars, mutexVars>>

UpdateStateNow(c) == UpdateState(c, "now")

UpdateStateTimer(c) == UpdateState(c, "timer")

\* -------------------------------------------------------------- checkIn

\* a check-in written whatever the stream's version
checkInAnyVersion(g) == AnyVersion

\* the version checkIn writes against
checkInExpected(g) == g.Version

\* case <-checkInNow / <-checkinTimer.C, and the switch after it
CheckIn(c, via) ==
    /\ pc[c] = "run"
    /\ CaseReady(c, "checkin", via)
    /\ LET cs2 == [cs[c] EXCEPT !.CheckedIn = now,
                                !.NextCheckIn = now + CheckInLeeway(checkinPeriod)]
           evt == [type |-> "ConsumerCheckedIn", ConsumerState |-> cs2]
           err == writeError(c, checkInExpected(gs[c]))
           ok  == err = "nil"
       IN  IF outerrOf(err) # "nil"
           THEN WriteFailed(c, checkInExpected(gs[c]), err)
           ELSE /\ cs' = [cs EXCEPT ![c] = cs2]
                /\ WriteEvent(c, evt, checkInExpected(gs[c]), ok)
                /\ sig' = [sig EXCEPT ![c] =
                             [@ EXCEPT !.checkin = IF via = "now" THEN FALSE ELSE @,
                                       !.update = @ \/ ok]]
                /\ timers' = [timers EXCEPT ![c] =
                                [@ EXCEPT !.checkin = ResetAfter(c, "checkin", via, checkinPeriod)]]
                /\ UNCHANGED <<pc, result, gs, delay, batches>>
    /\ UNCHANGED <<now, others, category, cancelled, handled>>
    /\ UNCHANGED subVars
    /\ UNCHANGED <<pollVars, mutexVars>>

CheckInNow(c) == CheckIn(c, "now")

CheckinTimer(c) == CheckIn(c, "timer")

\* ---------------------------------------------------------- manageGroup

\* a test for a leader never declared, which overlooks the lease's end
noLeaderDeclared(g) == g.Leader = ""

\* time.Now().After(gs.LeaderExpires)
noLeader(g) == now > g.LeaderExpires

\* the renewal test without gs.Leader == cs.ConsumerID
anyLeadershipIsExpiring(g, id) == g.LeaderExpires < now + LeaseRenewMargin

\* gs.Leader == cs.ConsumerID && gs.LeaderExpires.Before(time.Now().Add(time.Second))
myLeadershipIsExpiring(g, id) ==
    g.Leader = id /\ g.LeaderExpires < now + LeaseRenewMargin

\* the LeaderDeclared event manageGroup writes
leaderDeclared(id) ==
    [type |-> "LeaderDeclared", ConsumerID |-> id, Until |-> now + LeaseDuration]

\* the test without the active consumers' check-ins
milestoneDueWhoeverActive(g) ==
    /\ thereAreIdleConsumers(g)
    /\ (g.CurrentMilestone = <<>> \/ g.CurrentMilestone[1].End <= g.HighWaterMark)

\* "have all consumers completed or died?"
milestoneDue(g) ==
    /\ thereAreIdleConsumers(g)
    /\ (DOMAIN g.ActiveConsumers = {} \/ activeConsumersHaveExpired(g))
    /\ (g.CurrentMilestone = <<>> \/ g.CurrentMilestone[1].End <= g.HighWaterMark)

\* id, from and end of the milestone after g's current one
nextID(g) == IF g.CurrentMilestone = <<>> THEN 1 ELSE g.CurrentMilestone[1].ID + 1

\* a next milestone that does not start where the current one ends
nextFromZero(g) == 0

nextFrom(g) == IF g.CurrentMilestone = <<>> THEN 0 ELSE g.CurrentMilestone[1].End

nextEnd(g) == nextFrom(g) + MilestoneSize

\* "get all idle consumers": those whose next check-in is still to come
aliveIdlers(g) ==
    {id \in DOMAIN g.IdleConsumers : g.IdleConsumers[id].NextCheckIn > now}

\* "capture any debt from current milestone" of one active consumer
debtOf(g, id) ==
    LET st  == g.ActiveConsumers[id]
        cur == g.CurrentMilestone[1]
    IN  <<[GroupSize |-> Cardinality(DOMAIN cur.Partitions),
           Partition |-> SlotOf(cur, id),
           From      |-> st.CurrentPosition + 1,
           End       |-> cur.End]>>
        \o [j \in 1..Len(st.Debt) |->
              [GroupSize |-> st.Debt[j].GroupSize,
               Partition |-> st.Debt[j].Partition,
               From      |-> st.Debt[j].CurrentPosition + 1,
               End       |-> st.Debt[j].End]]

\* the debts in the order oa in which the active consumers are visited
debtsIn(g, oa) == Flatten([i \in 1..Len(oa) |-> debtOf(g, oa[i])])

\* "partition debt": debt idx goes to idlers[idx % len(idlers)]
RECURSIVE debtFor(_, _, _, _)
debtFor(debts, k, n, idx) ==
    IF debts = <<>> THEN <<>>
    ELSE (IF idx % n = k THEN <<Head(debts)>> ELSE <<>>)
         \o debtFor(Tail(debts), k, n, idx + 1)

\* a partitioning that gives every idler the slot 0
nextMilestoneOneSlot(g, oi, oa) ==
    [ID         |-> nextID(g),
     From       |-> nextFrom(g),
     End        |-> nextEnd(g),
     Partitions |-> [id \in {oi[k] : k \in 1..Len(oi)} |-> 0],
     Debt       |-> EmptyMap]

\* the milestone manageGroup writes, for the orders oi and oa in which the
\* ranges over the idle and the active consumers visit them
nextMilestone(g, oi, oa) ==
    LET debts == debtsIn(g, oa)
        n     == Len(oi)
        owing == {k \in 1..n : debtFor(debts, k - 1, n, 0) # <<>>}
    IN  [ID         |-> nextID(g),
         From       |-> nextFrom(g),
         End        |-> nextEnd(g),
         Partitions |-> [id \in {oi[k] : k \in 1..n} |->
                           (CHOOSE k \in 1..n : oi[k] = id) - 1],
         Debt       |-> [id \in {oi[k] : k \in owing} |->
                           debtFor(debts, (CHOOSE k \in 1..n : oi[k] = id) - 1, n, 0)]]

\* the debt capture reads current.Partitions of a nil milestone, or the debt
\* partition divides by len(idlers) = 0
milestonePanics(g) ==
    /\ DOMAIN g.ActiveConsumers # {}
    /\ (g.CurrentMilestone = <<>> \/ aliveIdlers(g) = {})

\* the decision without the test cs.ConsumerID != gs.Leader
manageDecisionOfAnyone(g, id) ==
    IF noLeader(g) \/ myLeadershipIsExpiring(g, id) THEN "leader"
    ELSE IF milestoneDue(g) THEN "milestone"
    ELSE "none"

\* what manageGroup does: declare itself leader, start a milestone or nothing
manageDecision(g, id) ==
    IF noLeader(g) \/ myLeadershipIsExpiring(g, id) THEN "leader"
    ELSE IF id # g.Leader THEN "none"
    ELSE IF milestoneDue(g) THEN "milestone"
    ELSE "none"

\* case <-manageGroupNow / <-manageGroupTimer.C; the switch after it does
\* nothing, live being false in every iteration that did not update the state
ManageGroup(c, via) ==
    /\ pc[c] = "run"
    /\ CaseReady(c, "manage", via)
    /\ LET d    == manageDecision(gs[c], c)
           err  == writeError(c, gs[c].Version)
           ok   == err = "nil"
           done == /\ sig' = [sig EXCEPT ![c] =
                                [@ EXCEPT !.manage = IF via = "now" THEN FALSE ELSE @]]
                   /\ timers' = [timers EXCEPT ![c] =
                                   [@ EXCEPT !.manage = ResetAfter(c, "manage", via, groupManagementPeriod)]]
                   /\ UNCHANGED <<pc, result, gs, cs, delay, batches>>
       IN  CASE d = "none" ->
                  /\ done
                  /\ UNCHANGED <<gpos, log, lastWrite>>
             [] d = "leader" ->
                  IF outerrOf(err) # "nil"
                  THEN WriteFailed(c, gs[c].Version, err)
                  ELSE /\ WriteEvent(c, leaderDeclared(c), gs[c].Version, ok)
                       /\ done
             [] d = "milestone" ->
                  IF milestonePanics(gs[c])
                  THEN /\ Return(c, "panic")
                       /\ UNCHANGED <<gpos, log, lastWrite>>
                  ELSE IF outerrOf(err) # "nil"
                  THEN WriteFailed(c, gs[c].Version, err)
                  ELSE \E oi \in Orders(aliveIdlers(gs[c])),
                          oa \in Orders(DOMAIN gs[c].ActiveConsumers) :
                         /\ WriteEvent(c, [type |-> "MilestoneStarted",
                                           Milestone |-> nextMilestone(gs[c], oi, oa)],
                                       gs[c].Version, ok)
                         /\ done
    /\ UNCHANGED <<now, others, category, cancelled, handled>>
    /\ UNCHANGED subVars
    /\ UNCHANGED <<pollVars, mutexVars>>

ManageGroupNow(c) == ManageGroup(c, "now")

ManageGroupTimer(c) == ManageGroup(c, "timer")

\* --------------------------------------------------------- readMessages

\* a loop that stops at its first message, wherever it is
FirstBeyondAny(msgs, end) == IF msgs # <<>> THEN 1 ELSE 0

\* the index of the first message of the batch at or beyond end, 0 if none
FirstBeyond(msgs, end) ==
    IF \E i \in 1..Len(msgs) : msgs[i].gp >= end
    THEN Min({i \in 1..Len(msgs) : msgs[i].gp >= end})
    ELSE 0

\* case <-readMessagesTimer.C, and the switch after it
ReadMessages(c) ==
    /\ pc[c] = "run"
    /\ Ready(timers[c].read)
    /\ IF gs[c].CurrentMilestone = <<>> \/ cs[c].MilestoneComplete
       THEN /\ timers' = [timers EXCEPT ![c] = [@ EXCEPT !.read = ResetReceived(@, Hour)]]
            /\ UNCHANGED <<pc, result, gs, cs, delay, sig, handled, batches>>
       ELSE IF cancelled[c]
       THEN /\ Return(c, "err")
            /\ UNCHANGED handled
       ELSE LET ms   == gs[c].CurrentMilestone[1]
                msgs == GetCategoryMessages(SlotOf(ms, c), Cardinality(DOMAIN ms.Partitions),
                                            cs[c].CurrentPosition + 1, ReadBatchSize)
                k    == FirstBeyond(msgs, ms.End)
                n    == IF k = 0 THEN Len(msgs) ELSE k - 1
                pos  == IF n = 0 THEN cs[c].CurrentPosition ELSE msgs[n].gp
                poll == DynamicPolling(delay[c], Len(msgs), ReadBatchSize)
            IN  /\ handled' = [handled EXCEPT ![c] =
                                 @ \o [i \in 1..n |-> [gp |-> msgs[i].gp, ms |-> ms.ID]]]
                /\ cs' = [cs EXCEPT ![c] = [@ EXCEPT !.CurrentPosition = pos,
                                                     !.MilestoneComplete = (k # 0)]]
                /\ delay' = IF k = 0 THEN [delay EXCEPT ![c] = poll.delay] ELSE delay
                /\ sig' = [sig EXCEPT ![c] = [@ EXCEPT !.checkin = @ \/ (k # 0)]]
                /\ timers' = [timers EXCEPT ![c] =
                                [@ EXCEPT !.read = ResetReceived(@, IF k = 0 THEN poll.wait ELSE Hour)]]
                /\ UNCHANGED <<pc, result, gs, batches>>
    /\ UNCHANGED <<now, gpos, others, log, category, lastWrite, cancelled>>
    /\ UNCHANGED subVars
    /\ UNCHANGED <<pollVars, mutexVars>>

\* ---------------------------------------------------------- environment

\* the caller cancels the context it passed to JoinGroup
Cancel(c) ==
    /\ pc[c] = "run"
    /\ ~cancelled[c]
    /\ cancelled' = [cancelled EXCEPT ![c] = TRUE]
    /\ UNCHANGED <<now, gpos, others, log, category, lastWrite, pc, result,
                   gs, cs, delay, timers, sig, handled, batches>>
    /\ UNCHANGED subVars
    /\ UNCHANGED <<pollVars, mutexVars>>

\* the caller of the first consumer cancels it
StopFirst ==
    /\ now \in StopTimes
    /\ Cancel("c1")

\* some client writes a message to a stream of the domain category
WriteDomain(h) ==
    /\ Len(category) < MaxDomain
    /\ category' = Append(category, [gp |-> gpos, hash |-> h, at |-> now])
    /\ gpos' = gpos + 1
    /\ UNCHANGED <<now, others, log, lastWrite, pc, result, cancelled,
                   gs, cs, delay, timers, sig, handled, batches>>
    /\ UNCHANGED subVars
    /\ UNCHANGED <<pollVars, mutexVars>>

\* writes to streams of other categories move the global position on
WriteOther(j) ==
    /\ others < MaxOther
    /\ others' = others + 1
    /\ gpos' = gpos + j
    /\ UNCHANGED <<now, log, category, lastWrite, pc, result, cancelled,
                   gs, cs, delay, timers, sig, handled, batches>>
    /\ UNCHANGED subVars
    /\ UNCHANGED <<pollVars, mutexVars>>

\* other writers append the messages evts to the coordination stream
WriteForeign(evts, by) ==
    /\ log' = log \o [i \in 1..Len(evts) |->
                        evts[i] @@ [gp |-> gpos + i - 1, by |-> by, at |-> now,
                                    expected |-> AnyVersion, json |-> "object"]]
    /\ gpos' = gpos + Len(evts)
    /\ UNCHANGED <<now, others, category, lastWrite, pc, result, cancelled,
                   gs, cs, delay, timers, sig, handled, batches>>
    /\ UNCHANGED subVars
    /\ UNCHANGED <<pollVars, mutexVars>>

\* the messages of the coordination stream written by others
Foreign(by) == SelectSeq(log, LAMBDA e : e.by = by)

\* some client writes a message of another type to the coordination stream
WriteUndecodable ==
    /\ now \in ForeignTimes
    /\ Len(Foreign("other")) < MaxUndecodable
    /\ WriteForeign(<<[type |-> "TestMessage"]>>, "other")

\* a check-in of a member of the group that runs elsewhere
CheckInElsewhere(id) ==
    [type |-> "ConsumerCheckedIn",
     ConsumerState |-> [NewConsumerState(id) EXCEPT
                          !.CheckedIn = now,
                          !.NextCheckIn = now + CheckInLeeway(checkinPeriod)]]

\* the coordination stream gets as many check-ins of a member that runs
\* elsewhere as one updateState reads
WriteBurstAt(times) ==
    /\ now \in times
    /\ Len(Foreign("c3")) < MaxBursts * StateBatchSize
    /\ WriteForeign([i \in 1..StateBatchSize |-> CheckInElsewhere("c3")], "c3")

WriteBurst == WriteBurstAt(ForeignTimes)

\* the same, right after a milestone was started
WriteBurstLate ==
    /\ log # <<>>
    /\ log[Len(log)].type = "MilestoneStarted"
    /\ WriteBurstAt(LateTimes)

\* a member of the group that runs elsewhere checks in for the first time
CheckInOnce ==
    /\ now \in ElsewhereTimes
    /\ Foreign("c3") = <<>>
    /\ WriteForeign(<<CheckInElsewhere("c3")>>, "c3")

\* the deadlines of the running consumers' timers
Deadlines ==
    {timers[c][n].at : c \in {x \in Consumers : pc[x] = "run"},
                       n \in {"update", "checkin", "manage", "read"}} \ {NoDeadline}

\* the instants still to come at which a caller may act
CallerTimes ==
    {t \in StopTimes \cup WriteTimes \cup SoloWriteTimes \cup DebtStopTimes
           \cup UNION {JoinTimes(c) : c \in {x \in Consumers : pc[x] = "out"}} : t > now}

\* time passes, up to the next deadline, while no select has a ready case
TickTo(limit) ==
    /\ \A c \in Consumers : pc[c] = "run" => ~SelectReady(c)
    /\ Deadlines # {}
    /\ Min(Deadlines \cup CallerTimes) <= limit
    /\ now' = Min(Deadlines \cup CallerTimes)
    /\ UNCHANGED <<gpos, others, log, category, lastWrite, pc, result, cancelled,
                   gs, cs, delay, timers, sig, handled, batches>>
    /\ UNCHANGED subVars
    /\ UNCHANGED <<pollVars, mutexVars>>

\* one iteration of c's select loop, its context not cancelled
Handlers(c) ==
    \/ UpdateStateNow(c)
    \/ UpdateStateTimer(c)
    \/ CheckInNow(c)
    \/ CheckinTimer(c)
    \/ ManageGroupNow(c)
    \/ ManageGroupTimer(c)
    \/ ReadMessages(c)

\* one iteration of c's select loop
Loop(c) ==
    \/ CtxDone(c)
    \/ Handlers(c)

\* writes to the store by other clients
Writes ==
    \/ \E h \in Hashes : WriteDomain(h)
    \/ \E j \in OtherJumps : WriteOther(j)

\* the same, at the instants set for them
TimedWrites ==
    /\ now \in WriteTimes
    /\ Writes

\* the same, while one consumer runs
SoloWrites ==
    /\ now \in SoloWriteTimes
    /\ Writes

Tick == TickTo(MaxTime)

\* two consumers that keep running
Next ==
    \/ \E c \in Consumers : Join(c)
    \/ \E c \in Consumers : Handlers(c)
    \/ TimedWrites
    \/ Tick

Spec == Init /\ [][Next]_vars

SoloTick == TickTo(SoloMaxTime)

\* one consumer, which its caller may cancel
SoloNext ==
    \/ Join("c1")
    \/ Cancel("c1")
    \/ Loop("c1")
    \/ SoloWrites
    \/ SoloTick

SoloSpec == Init /\ [][SoloNext]_vars

FailoverTick == TickTo(FailoverMaxTime)

\* two consumers, the first of which its caller may cancel
FailoverNext ==
    \/ \E c \in Consumers : Join(c)
    \/ StopFirst
    \/ \E c \in Consumers : Loop(c)
    \/ FailoverTick

FailoverSpec == Init /\ [][FailoverNext]_vars

\* the caller of the second consumer cancels it
StopSecond ==
    /\ now \in DebtStopTimes
    /\ Cancel("c2")

DebtTick == TickTo(DebtMaxTime)

\* two consumers, the second of which its caller may cancel, and writes to
\* the store by other clients
DebtNext ==
    \/ \E c \in Consumers : Join(c)
    \/ StopSecond
    \/ \E c \in Consumers : Loop(c)
    \/ TimedWrites
    \/ DebtTick

DebtSpec == Init /\ [][DebtNext]_vars

\* both consumers join as the clock starts
JoinAtStart(c) ==
    /\ now = 0
    /\ Join(c)

\* writes to the store by other clients before any check-in
WritesAtStart ==
    /\ now = 0
    /\ Writes

\* time passes; the second consumer does not outlive the instant at which its
\* caller cancels it
ExpiryTick ==
    /\ (\A t \in DebtStopTimes : now < t) \/ pc["c2"] # "run"
    /\ TickTo(ExpiryMaxTime)

\* two consumers that join together, the second of which is cancelled in its
\* first milestone while the first runs on past the second's last check-in
ExpiryNext ==
    \/ \E c \in Consumers : JoinAtStart(c)
    \/ StopSecond
    \/ \E c \in Consumers : Loop(c)
    \/ WritesAtStart
    \/ ExpiryTick

ExpirySpec == Init /\ [][ExpiryNext]_vars

ForeignTick == TickTo(ForeignMaxTime)

\* one consumer, and other writers of the coordination stream
ForeignNext ==
    \/ Join("c1")
    \/ Handlers("c1")
    \/ WriteUndecodable
    \/ WriteBurst
    \/ ForeignTick

ForeignSpec == Init /\ [][ForeignNext]_vars

\* one consumer, a member that runs elsewhere, and writes to the store by
\* other clients
LateNext ==
    \/ Join("c1")
    \/ Handlers("c1")
    \/ TimedWrites
    \/ CheckInOnce
    \/ WriteBurstLate
    \/ ForeignTick

LateSpec == Init /\ [][LateNext]_vars

\* ---------------------------------------------------- SubscribeToStream

\* the message ids written to the stream
MsgIDs == {"a", "b"}

\* the expected versions writers pass
ExpectedVersions == {AnyVersion, NoStreamVersion} \cup 0..(MaxStream - 1)

\* the batch sizes readers pass
BatchSizes == {0, 1, DefaultBatchSize}

\* what poll.Reset(0) does: (*Ticker).Reset panics on a duration that is not
\* positive in the Go releases that check it; in the others the ticker gets
\* period 0, fires once more and is then off
TickerResetZero == {"panics", "fires once"}

\* a read that fails: with the context's error when the context is cancelled,
\* or with an error of the database
ReadErrors(ctx) ==
    IF ctx = "canceled" THEN {"context canceled", "read failed"} ELSE {"read failed"}

\* ctx.Err()
ctxErr(ctx) == IF ctx = "canceled" THEN "context canceled" ELSE "nil"

\* wrappedHandleError: what the dropped handler is called with for error e
wrappedHandleError(e, ctx) ==
    IF e = "context canceled" THEN "nil" ELSE ctxErr(ctx)

\* a cursor that stays on the last message read
nextVersionOnLast(msgs, version) ==
    IF msgs # <<>> THEN msgs[Len(msgs)].version ELSE version

\* cfg.version = msgs[len(msgs)-1].Version + 1, after a batch with messages
nextVersion(msgs, version) ==
    IF msgs # <<>> THEN msgs[Len(msgs)].version + 1 ELSE version

\* a full batch taken for the end of the stream too
caughtUpOnFullBatch(n, batchSize, live) == n <= batchSize /\ ~live

\* len(msgs) < int(cfg.batchSize) && !live
caughtUp(n, batchSize, live) == n < batchSize /\ ~live

\* len(msgs) == int(cfg.batchSize) && live
fellBehind(n, batchSize, live) == n = batchSize /\ live

\* a subscription that takes itself for live from the start
liveAtStartTrue == TRUE

\* live := false
liveAtStart == FALSE

\* a subscription that goes on after it called the dropped handler
afterDroppedGoOn == "run"

\* the return after wrappedHandleError
afterDropped == "stopped"

\* SubscribeToStream(ctx, stream, ..., FromVersion(version),
\* WithStreamBatchSize(batchSize)): the options are validated and the
\* goroutine is started with poll = NewTicker(1) and live = false
SubscribeToStream(si, version, batchSize, reset0) ==
    /\ sub.pc = "none"
    /\ sub' = IF StreamReadValidate(si, version, batchSize) # "nil"
              THEN [sub EXCEPT !.pc = "refused", !.version = version,
                               !.batchSize = batchSize,
                               !.ret = StreamReadValidate(si, version, batchSize)]
              ELSE [sub EXCEPT !.pc = "run", !.version = version, !.ret = "nil",
                               !.batchSize = batchSize, !.live = liveAtStart,
                               !.ticks = "periodic", !.reset0 = reset0,
                               !.from = version, !.startLen = Len(stream)]
    /\ UNCHANGED <<stream, calls, ops, opt>>
    /\ UNCHANGED coordVars
    /\ UNCHANGED <<pollVars, mutexVars>>

\* the caller cancels the subscription's context
SubCancel ==
    /\ sub.pc = "run"
    /\ sub.ctx = "live"
    /\ sub' = [sub EXCEPT !.ctx = "canceled"]
    /\ UNCHANGED <<stream, calls, ops, opt>>
    /\ UNCHANGED coordVars
    /\ UNCHANGED <<pollVars, mutexVars>>

\* case <-ctx.Done(): wrappedHandleError(ctx.Err()); return
SubCtxDone ==
    /\ sub.pc = "run"
    /\ sub.ctx = "canceled"
    /\ calls' = Append(calls, DroppedCall(wrappedHandleError(ctxErr(sub.ctx), sub.ctx)))
    /\ sub' = [sub EXCEPT !.pc = afterDropped, !.cause = "cancel"]
    /\ UNCHANGED <<stream, ops, opt>>
    /\ UNCHANGED coordVars
    /\ UNCHANGED <<pollVars, mutexVars>>

\* case <-poll.C, and GetStreamMessages fails with e:
\* wrappedHandleError(err); return
PollFails(e) ==
    /\ sub.pc = "run"
    /\ sub.ticks # "none"
    /\ e \in ReadErrors(sub.ctx)
    /\ calls' = Append(calls, DroppedCall(wrappedHandleError(e, sub.ctx)))
    /\ sub' = [sub EXCEPT !.pc = afterDropped, !.err = e,
                          !.cause = IF e = "context canceled" THEN "cancel" ELSE "read"]
    /\ UNCHANGED <<stream, ops, opt>>
    /\ UNCHANGED coordVars
    /\ UNCHANGED <<pollVars, mutexVars>>

\* case <-poll.C, and GetStreamMessages returns a batch: the messages are
\* handled, the cursor moves, and the subscription goes live or falls behind
PollRead ==
    /\ sub.pc = "run"
    /\ sub.ticks # "none"
    /\ sub.ctx = "live"
    /\ LET msgs   == GetStreamMessagesOf(stream, sub.version, sub.batchSize).msgs
           n      == Len(msgs)
           up     == caughtUp(n, sub.batchSize, sub.live)
           behind == ~up /\ fellBehind(n, sub.batchSize, sub.live)
           panics == behind /\ sub.reset0 = "panics"
           said   == IF up THEN <<LivenessCall(TRUE)>>
                     ELSE IF behind /\ ~panics THEN <<LivenessCall(FALSE)>>
                     ELSE <<>>
       IN  /\ calls' = calls \o [i \in 1..n |-> MessageCall(msgs[i])] \o said
           /\ sub' = [sub EXCEPT
                        !.version = nextVersion(msgs, sub.version),
                        !.live    = IF up THEN TRUE ELSE IF behind THEN FALSE ELSE @,
                        !.ticks   = IF up THEN "periodic"
                                    ELSE IF behind THEN "one"
                                    ELSE IF @ = "one" THEN "none" ELSE @,
                        !.pc      = IF panics THEN "panicked" ELSE @,
                        !.firstN  = IF @ = -1 THEN n ELSE @,
                        !.last    = [n |-> n, wasLive |-> sub.live, base |-> Len(calls)]]
    /\ UNCHANGED <<stream, ops, opt>>
    /\ UNCHANGED coordVars
    /\ UNCHANGED <<pollVars, mutexVars>>

\* the message the store holds for a proposed message written at version
StoredMessage(pm, version) ==
    [id |-> pm.ID, version |-> version, type |-> pm.Type, data |-> pm.Data]

\* WriteMessage(ctx, si, pm, expected): the inputs are validated, then
\* write_message is executed on the stream
WriteMessage(si, pm, expected) ==
    /\ LET verr == WriteMessageValidate(si, pm)
           r    == IF verr # "nil" THEN [rev |-> 0, err |-> verr]
                   ELSE WriteMessageResult(stream, expected)
       IN  /\ r.err = "nil" => Len(stream) < MaxStream
           /\ stream' = IF r.err = "nil"
                        THEN Append(stream, StoredMessage(pm, r.rev))
                        ELSE stream
           /\ ops' = [ops EXCEPT !.w = [si       |-> si,
                                        type     |-> pm.Type,
                                        data     |-> pm.Data,
                                        expected |-> expected,
                                        was      |-> stream,
                                        id       |-> pm.ID,
                                        rev      |-> r.rev,
                                        err      |-> r.err,
                                        queried  |-> verr = "nil"]]
    /\ UNCHANGED <<sub, calls, opt>>
    /\ UNCHANGED coordVars
    /\ UNCHANGED <<pollVars, mutexVars>>

\* a client appends a message to the stream subscribed to
Publish == WriteMessage(TheStream, TestMessage("a"), AnyVersion)

\* GetStreamMessages(ctx, si, FromVersion(version), WithStreamBatchSize(batchSize)):
\* the inputs are validated, then get_stream_messages is executed
ReadStream(si, version, batchSize) ==
    /\ LET verr == StreamReadValidate(si, version, batchSize)
           r    == IF verr # "nil" THEN [msgs |-> <<>>, err |-> verr]
                   ELSE GetStreamMessagesOf(stream, version, batchSize)
       IN  ops' = [ops EXCEPT !.r = [kind      |-> "stream",
                                     si        |-> si,
                                     version   |-> version,
                                     batchSize |-> batchSize,
                                     msgs      |-> r.msgs,
                                     err       |-> r.err,
                                     queried   |-> verr = "nil"]]
    /\ UNCHANGED <<stream, sub, calls, opt>>
    /\ UNCHANGED coordVars
    /\ UNCHANGED <<pollVars, mutexVars>>

\* GetCategoryMessages(ctx, cat, FromPosition(..), WithCategoryBatchSize(..),
\* AsConsumerGroup(..)): the inputs are validated, then get_category_messages
\* is executed; the record keeps the position asked for as its version
ReadCategory(cat, cfg) ==
    /\ \E h \in Hashes :
          LET r == GetCategoryMessagesOf(stream, cat, cfg, h)
          IN  ops' = [ops EXCEPT !.r = [kind      |-> "category",
                                        si        |-> [Category |-> cat, ID |-> ""],
                                        version   |-> cfg.position,
                                        batchSize |-> cfg.batchSize,
                                        msgs      |-> r.msgs,
                                        err       |-> r.err,
                                        queried   |-> CategoryReadValidate(cat, cfg) = "nil"]]
    /\ UNCHANGED <<stream, sub, calls, opt>>
    /\ UNCHANGED coordVars
    /\ UNCHANGED <<pollVars, mutexVars>>

\* cfg.validate() on the options of a category read
Validate(cfg) ==
    /\ opt' = [cfg |-> cfg, err |-> categoryConfigValidate(cfg)]
    /\ UNCHANGED <<stream, sub, calls, ops>>
    /\ UNCHANGED coordVars
    /\ UNCHANGED <<pollVars, mutexVars>>

\* one subscription to a stream that clients append to
SubNext ==
    \/ \E v \in -1..MaxFrom, b \in 0..MaxBatch, z \in TickerResetZero :
          SubscribeToStream(TheStream, v, b, z)
    \/ SubCancel
    \/ SubCtxDone
    \/ \E e \in {"context canceled", "read failed"} : PollFails(e)
    \/ PollRead
    \/ Publish

SubSpec == Init /\ [][SubNext]_vars

\* ObserveGroup(ctx, group, stateHandler): a subscription to the group's
\* coordination stream with the default options
ObserveGroup(z) == SubscribeToStream(GroupStream, 0, DefaultBatchSize, z)

\* a member of the group, or anyone else, writes to the coordination stream
WriteCoordination(pm) == WriteMessage(GroupStream, pm, AnyVersion)

\* what ObserveGroup holds after the calls its subscription has made
Observer == ObserveCalls(NoObserver, calls, stream)

ObserveNext ==
    \/ \E z \in TickerResetZero : ObserveGroup(z)
    \/ \E pm \in CoordinationMessages : WriteCoordination(pm)
    \/ PollRead
    \/ \E e \in {"context canceled", "read failed"} : PollFails(e)
    \/ SubCancel
    \/ SubCtxDone

ObserveSpec == Init /\ [][ObserveNext]_vars

\* clients that write to a stream and read it
StoreNext ==
    \/ \E id \in MsgIDs, e \in ExpectedVersions : WriteMessage(TheStream, TestMessage(id), e)
    \/ \E v \in -1..MaxStream, b \in BatchSizes : ReadStream(TheStream, v, b)

StoreSpec == Init /\ [][StoreNext]_vars

\* callers that pass what they like: writes, reads and a subscription with
\* stream identifiers, messages and options that are valid or not
RequestNext ==
    \/ \E si \in StreamIdentifiers, pm \in ProposedMessages :
          WriteMessage(si, pm, NoStreamVersion)
    \/ \E si \in StreamIdentifiers, v \in -1..0, b \in 0..1 : ReadStream(si, v, b)
    \/ \E cat \in {<<"c", "-", "t">>, TheCategory}, cfg \in RequestConfigs :
          ReadCategory(cat, cfg)
    \/ \E si \in StreamIdentifiers, v \in -1..0, b \in 0..1, z \in TickerResetZero :
          SubscribeToStream(si, v, b, z)
    \/ PollRead

RequestSpec == Init /\ [][RequestNext]_vars

\* ---------------------------------------------------- polling strategies

\* the reads the strategies are called for: of 2 messages expected none,
\* one or both were retrieved, as in the tests; of 8 expected (0.75 of them
\* being 6) none, 5, 6, 7 or 8 were
BackoffReads == [retrieved : 0..2, expected : {2}]

DynamicReads == [retrieved : {0, 5, 6, 7, 8}, expected : {8}]

PollReads(f) == IF f.kind = "ExpBackoff" THEN BackoffReads ELSE DynamicReads

\* f is made by ExpBackoffPolling(..) or DynamicPolling(..), and each of two
\* subscriptions gets its strategy from it: s1 = f(), s2 = f()
NewStrategies(f) ==
    /\ strat.factory.kind = "none"
    /\ strat' = [strat EXCEPT !.factory = f,
                              !.cells = [s \in Strategies |-> NewStrategy(f)],
                              !.twins = [s \in Strategies |-> NewStrategy(f)]]
    /\ UNCHANGED coordVars
    /\ UNCHANGED subVars
    /\ UNCHANGED mutexVars

\* strategy s is called after a read; twins[s] is a strategy of the same
\* factory that gets the calls made on s and no others
CallPollingStrategy(s, retrieved, expected) ==
    /\ strat.factory.kind # "none"
    /\ [retrieved |-> retrieved, expected |-> expected] \in PollReads(strat.factory)
    /\ strat.cells[cellOf(s)].noMessageCount < MaxEmptyReads
    /\ strat.twins[s].noMessageCount < MaxEmptyReads
    /\ LET f  == strat.factory
           st == strat.cells[cellOf(s)]
       IN  \E conv \in Conversions(PowTruncated(f.num, f.den, st.noMessageCount)) :
              LET r == CallStrategy(f, st, retrieved, expected, conv)
                  t == CallStrategy(f, strat.twins[s], retrieved, expected, conv)
              IN  strat' = [strat EXCEPT
                      !.cells[cellOf(s)] = r.st,
                      !.twins[s]         = t.st,
                      !.last[s]          = [retrieved |-> retrieved,
                                            expected  |-> expected,
                                            ret       |-> r.ret,
                                            alone     |-> t.ret,
                                            run       |-> strat.last[s].empties,
                                            empties   |-> IF retrieved = 0
                                                          THEN strat.last[s].empties + 1
                                                          ELSE 0,
                                            before    |-> st.delay]]
    /\ UNCHANGED coordVars
    /\ UNCHANGED subVars
    /\ UNCHANGED mutexVars

\* a call of one of two strategies, none called for more than MaxInterleaved
\* reads without messages in a row
CallInTurn(s, rd) ==
    /\ strat.last[s].empties < MaxInterleaved
    /\ CallPollingStrategy(s, rd.retrieved, rd.expected)

\* two subscriptions' strategies called in any order
PollingNext ==
    \/ \E f \in Factories : NewStrategies(f)
    \/ \E s \in Strategies, rd \in BackoffReads \cup DynamicReads : CallInTurn(s, rd)

PollingSpec == Init /\ [][PollingNext]_vars

\* one subscription's strategy, called for up to MaxEmptyReads reads without
\* messages in a row
BackoffNext ==
    \/ \E f \in {g \in Factories : g.kind = "ExpBackoff"} : NewStrategies(f)
    \/ \E rd \in BackoffReads : CallPollingStrategy("s1", rd.retrieved, rd.expected)

BackoffSpec == Init /\ [][BackoffNext]_vars

\* options of category reads being validated
OptionNext == \E cfg \in CategoryConfigs : Validate(cfg)

OptionSpec == Init /\ [][OptionNext]_vars

ProgressTick == TickTo(ProgressMaxTime)

\* one consumer that keeps running, and writes to the store by other clients
\* before it checks in
ProgressNext ==
    \/ JoinAtStart("c1")
    \/ Handlers("c1")
    \/ WritesAtStart
    \/ ProgressTick

\* the select loop serves a case that is ready, and time passes
ProgressSpec ==
    /\ Init
    /\ [][ProgressNext]_vars
    /\ WF_vars(Handlers("c1"))
    /\ WF_vars(ProgressTick)

\* ------------------------------------- JoinGroup with goroutines and mutexes

\* goroutine g takes a step of its own
Steps(g, from) ==
    /\ ~mu.panicked
    /\ mu.at[g] = from

\* the store appends evt when the expected version is the stream's
WriteMutexEvent(m, evt) ==
    IF m.shared.Version = Len(m.events) - 1
    THEN [m EXCEPT !.events = Append(@, evt)]
    ELSE m

\* SubscribeToStream reads the events it has not read yet
SubscriptionReads ==
    /\ Steps("subscription", "poll")
    /\ Len(mu.events) > mu.read \/ ~mu.live
    /\ mu' = [mu EXCEPT !.batchEnd = Len(mu.events), !.at["subscription"] = "next"]

\* it calls the message handler with the next event of the batch, or, the
\* batch done, the liveness handler: live = b
SubscriptionNext ==
    /\ Steps("subscription", "next")
    /\ IF mu.read < mu.batchEnd
       THEN mu' = [mu EXCEPT !.evt = mu.events[mu.read + 1],
                             !.read = @ + 1,
                             !.at["subscription"] = "gsMtx.Lock"]
       ELSE mu' = [mu EXCEPT !.live = TRUE, !.at["subscription"] = "poll"]

\* mtx.Lock() by g, which goes on at next
Lock(g, mtx, next) ==
    /\ Steps(g, mtx \o ".Lock")
    /\ mu[mtx] = "none"
    /\ mu' = [mu EXCEPT ![mtx] = g, !.at[g] = next]

\* evt.Apply(gs, m.Version) under gsMtx; a MilestoneStarted received live
\* takes csMtx as well
HandlerApplies ==
    /\ Steps("subscription", "apply")
    /\ LET e  == mu.evt
           s  == mu.shared
           s2 == [s EXCEPT !.Version   = mu.read - 1,
                           !.leader    = @ \/ e.type = "LeaderDeclared",
                           !.idle      = IF e.type = "ConsumerCheckedIn" THEN e.complete ELSE @,
                           !.active    = IF e.type = "ConsumerCheckedIn" THEN ~e.complete ELSE @,
                           !.milestone = @ \/ e.type = "MilestoneStarted"]
       IN  mu' = [mu EXCEPT !.shared = s2,
                            !.at["subscription"] =
                                IF mu.live /\ e.type = "MilestoneStarted"
                                THEN "csMtx.Lock" ELSE "return"]

\* cs = gs.CurrentMilestone.initialStateFor(consumerID)
HandlerResets ==
    /\ Steps("subscription", "reset")
    /\ mu' = [mu EXCEPT !.shared.complete = FALSE, !.at["subscription"] = "return"]

\* the handler returns: its deferred Unlocks run
HandlerReturns ==
    /\ Steps("subscription", "return")
    /\ mu' = [mu EXCEPT !.csMtx = IF @ = "subscription" THEN "none" ELSE @,
                        !.gsMtx = "none",
                        !.at["subscription"] = "next"]

\* case <-t.C of goroutine g, which goes on at next when test holds
Ticks(g, test, next) ==
    /\ Steps(g, "wait")
    /\ Len(mu.events) < MaxMutexEvents
    /\ test
    /\ mu' = [mu EXCEPT !.at[g] = next]

\* the leader goroutine under gsMtx: it declares itself leader when there is
\* none or its lease is about to end (expiring), else starts a milestone when
\* there are idle consumers and the active ones are none or not alive; with
\* debt to hand out and no idler whose check-in is still to come it panics
LeaderManages(expiring, alive, idlers) ==
    /\ Steps("leader", "manage")
    /\ LET s == mu.shared
       IN  IF ~s.leader \/ expiring
           THEN mu' = [WriteMutexEvent(mu, [type |-> "LeaderDeclared", complete |-> TRUE])
                         EXCEPT !.gsMtx = "none", !.at["leader"] = "wait"]
           ELSE IF s.idle /\ (~s.active \/ ~alive)
           THEN IF s.active /\ (~s.milestone \/ ~idlers)
                THEN mu' = [mu EXCEPT !.panicked = TRUE]
                ELSE mu' = [WriteMutexEvent(mu, [type |-> "MilestoneStarted", complete |-> TRUE])
                              EXCEPT !.gsMtx = "none", !.at["leader"] = "wait"]
           ELSE mu' = [mu EXCEPT !.gsMtx = "none", !.at["leader"] = "wait"]

\* the check-in goroutine under csMtx and gsMtx: it writes its ConsumerState
\* and unlocks csMtx, then gsMtx
CheckInWrites ==
    /\ Steps("checkin", "write")
    /\ mu' = [WriteMutexEvent(mu, [type |-> "ConsumerCheckedIn",
                                   complete |-> mu.shared.complete])
                EXCEPT !.csMtx = "none", !.gsMtx = "none", !.at["checkin"] = "wait"]

\* the dispatch loop under csMtx: it reads its partition and hands over
DispatchReads ==
    /\ Steps("dispatch", "read")
    /\ mu' = [mu EXCEPT !.csMtx = "none", !.at["dispatch"] = "wait"]

\* the rest of the model is not part of this JoinGroup
Elsewhere ==
    /\ UNCHANGED coordVars
    /\ UNCHANGED subVars
    /\ UNCHANGED pollVars

\* the handler: gsMtx.Lock(); defer gsMtx.Unlock()
HandlerLocksGs == Lock("subscription", "gsMtx", "apply") /\ Elsewhere

\* the handler: csMtx.Lock(); defer csMtx.Unlock()
HandlerLocksCs == Lock("subscription", "csMtx", "reset") /\ Elsewhere

\* the leader goroutine: if live { gsMtx.Lock()
LeaderTicks == Ticks("leader", mu.live, "gsMtx.Lock") /\ Elsewhere

LeaderLocksGs == Lock("leader", "gsMtx", "manage") /\ Elsewhere

\* the check-in goroutine: if live { csMtx.Lock(); gsMtx.Lock()
CheckInTicks == Ticks("checkin", mu.live, "csMtx.Lock") /\ Elsewhere

CheckInLocksCs == Lock("checkin", "csMtx", "gsMtx.Lock") /\ Elsewhere

CheckInLocksGs == Lock("checkin", "gsMtx", "write") /\ Elsewhere

\* the dispatch loop: if ms := gs.CurrentMilestone; live && ms != nil { csMtx.Lock()
DispatchTicks == Ticks("dispatch", mu.live /\ mu.shared.milestone, "csMtx.Lock") /\ Elsewhere

DispatchLocksCs == Lock("dispatch", "csMtx", "read") /\ Elsewhere

LeaderManagesGroup ==
    \E expiring, alive, idlers \in BOOLEAN : LeaderManages(expiring, alive, idlers) /\ Elsewhere

\* a step of one goroutine of the goroutine-and-mutex JoinGroup
MutexNext ==
    \/ SubscriptionReads /\ Elsewhere
    \/ SubscriptionNext /\ Elsewhere
    \/ HandlerLocksGs
    \/ HandlerApplies /\ Elsewhere
    \/ HandlerLocksCs
    \/ HandlerResets /\ Elsewhere
    \/ HandlerReturns /\ Elsewhere
    \/ LeaderTicks
    \/ LeaderLocksGs
    \/ LeaderManagesGroup
    \/ CheckInTicks
    \/ CheckInLocksCs
    \/ CheckInLocksGs
    \/ CheckInWrites /\ Elsewhere
    \/ DispatchTicks
    \/ DispatchLocksCs
    \/ DispatchReads /\ Elsewhere

MutexSpec == Init /\ [][MutexNext]_vars

\* ------------------------------------------------------------------ claims

\* the consumers whose JoinGroup is running
Running == {c \in Consumers : pc[c] = "run"}

Max(S) == CHOOSE x \in S : \A y \in S : x >= y

\* the coordination stream up to version v
Prefix(v) == SubSeq(log, 1, v + 1)

\* the GroupState a coordinator gets that folds the stream up to version v
\* from the initial state in one batch
Projection(v) == ApplyBatch(NewGroupState, Prefix(v), 0)

\* C1: a coordinator's GroupState, built batch by batch as updateState read the
\* stream, equals the fold of the prefix it has read in one batch from the
\* initial state; so two coordinators that have read the same prefix hold equal
\* GroupStates whatever their batch boundaries were
C1_DeterministicFold ==
    /\ \A c \in Running : gs[c] = Projection(gs[c].Version)
    /\ \A c, d \in Running : gs[c].Version = gs[d].Version => gs[c] = gs[d]

\* two coordinators have read the same three or more events in different batches
C1_Witness ==
    \E c, d \in Running :
        /\ gs[c].Version >= 2
        /\ gs[c].Version = gs[d].Version
        /\ batches[c].ends # batches[d].ends
        /\ gs[c] = gs[d]

\* C2: every event of the coordination stream was written against the version
\* just before its own, so for each expected version v at most one write
\* appended, at version v + 1; a write that got ErrUnexpectedStreamVersion
\* appended nothing, the stream being past its expected version; of two
\* consumers whose writes expected the same version at most one appended
C2_OneWriterPerVersion ==
    /\ \A i \in 1..Len(log) : log[i].expected = i - 2
    /\ \A i, j \in 1..Len(log) : log[i].expected = log[j].expected => i = j
    /\ \A c \in Consumers :
          /\ lastWrite[c].err = "ErrUnexpectedStreamVersion" =>
                ~lastWrite[c].appended /\ StreamVersion > lastWrite[c].expected
          /\ lastWrite[c].err = "nil" =>
                /\ lastWrite[c].appended
                /\ log[lastWrite[c].expected + 2].by = c
    /\ \A c, d \in Consumers :
          c # d /\ lastWrite[c].err # "none" /\ lastWrite[d].err # "none"
                /\ lastWrite[c].expected = lastWrite[d].expected
             => ~(lastWrite[c].appended /\ lastWrite[d].appended)

\* two consumers wrote at the same instant against the same version: one
\* appended, the other got ErrUnexpectedStreamVersion
C2_Witness ==
    \E c, d \in Consumers :
        /\ lastWrite[c].at = lastWrite[d].at
        /\ lastWrite[c].expected = lastWrite[d].expected
        /\ lastWrite[c].appended
        /\ lastWrite[d].err = "ErrUnexpectedStreamVersion"
        /\ log[lastWrite[c].expected + 2].by = c

\* the MilestoneStarted events of the coordination stream, in order
MilestoneEvents == SelectSeq(log, LAMBDA e : e.type = "MilestoneStarted")

\* C4: the first MilestoneStarted of the stream has id 1 and from 0, each later
\* one has the id of the one before plus 1 and starts where that one ends, and
\* every milestone ends 100 after its start
C4_MilestoneChaining ==
    LET ms == MilestoneEvents
    IN  /\ Len(ms) > 0 => ms[1].Milestone.ID = 1 /\ ms[1].Milestone.From = 0
        /\ \A i \in 1..Len(ms) :
              /\ ms[i].Milestone.End = ms[i].Milestone.From + 100
              /\ ms[i].Milestone.End > ms[i].Milestone.From
        /\ \A i \in 1..(Len(ms) - 1) :
              /\ ms[i + 1].Milestone.ID = ms[i].Milestone.ID + 1
              /\ ms[i + 1].Milestone.From = ms[i].Milestone.End

\* a second milestone has been started
C4_Witness == Len(MilestoneEvents) >= 2

\* the places in the stream up to version v of the check-ins of consumer id
CheckInsOf(v, id) ==
    {i \in 1..(v + 1) : /\ log[i].type = "ConsumerCheckedIn"
                        /\ log[i].ConsumerState.ConsumerID = id}

\* C5: in every coordinator's GroupState no consumer is both active and idle,
\* and a consumer with a check-in applied is idle when its latest check-in
\* applied was complete and active when it was not, its entry being the state
\* of that check-in
C5_ActiveOrIdle ==
    \A c \in Running :
        /\ DOMAIN gs[c].ActiveConsumers \cap DOMAIN gs[c].IdleConsumers = {}
        /\ \A id \in Consumers :
              CheckInsOf(gs[c].Version, id) # {} =>
                 LET st == log[Max(CheckInsOf(gs[c].Version, id))].ConsumerState
                 IN  IF st.MilestoneComplete
                     THEN /\ id \in DOMAIN gs[c].IdleConsumers
                          /\ id \notin DOMAIN gs[c].ActiveConsumers
                          /\ gs[c].IdleConsumers[id] = st
                     ELSE /\ id \in DOMAIN gs[c].ActiveConsumers
                          /\ id \notin DOMAIN gs[c].IdleConsumers
                          /\ gs[c].ActiveConsumers[id] = st

\* a coordinator has applied a complete check-in of a consumer and then one
\* that is not complete: the consumer moved from idle to active
C5_Witness ==
    \E c \in Running, id \in Consumers :
        /\ id \in DOMAIN gs[c].ActiveConsumers
        /\ \E i, j \in CheckInsOf(gs[c].Version, id) :
              /\ i < j
              /\ log[i].ConsumerState.MilestoneComplete
              /\ ~log[j].ConsumerState.MilestoneComplete

\* the places in the stream of the LeaderDeclared events
LeaderEvents == {i \in 1..Len(log) : log[i].type = "LeaderDeclared"}

\* the GroupStates in which the stream is projected: each running
\* coordinator's, and the fold of the whole stream
Projections == {gs[c] : c \in Running} \cup {Projection(StreamVersion)}

\* the consumers some projection shows as leader with a lease still to end
LiveLeaders == {g.Leader : g \in {p \in Projections : p.Leader # "" /\ p.LeaderExpires > now}}

\* C3: over all projections of the stream at most one consumer is leader with
\* leaderExpires > now, and a LeaderDeclared that names another consumer than
\* the LeaderDeclared before it was written after that one's lease had ended
C3_LeaderUniqueness ==
    /\ Cardinality(LiveLeaders) <= 1
    /\ \A i, j \in LeaderEvents :
          /\ i < j
          /\ ~ \E k \in LeaderEvents : i < k /\ k < j
          /\ log[i].ConsumerID # log[j].ConsumerID
          => log[j].at > log[i].Until

\* leadership has passed from one consumer to another
C3_Witness ==
    \E i, j \in LeaderEvents :
        /\ i < j
        /\ log[i].ConsumerID # log[j].ConsumerID
        /\ Projection(StreamVersion).Leader = log[j].ConsumerID
        /\ LiveLeaders = {log[j].ConsumerID}

\* the places in the stream of the LeaderDeclared events that name consumer id
LeaderEventsOf(id) == {i \in LeaderEvents : log[i].ConsumerID = id}

\* c1 became leader and has stopped, c2 is running
FirstStoppedAsLeader ==
    /\ pc["c1"] = "done"
    /\ pc["c2"] = "run"
    /\ LeaderEventsOf("c1") # {}

\* the end of the last lease c1 declared
FirstLeaseEnd == log[Max(LeaderEventsOf("c1"))].Until

\* C9: when c1 has stopped after becoming leader and c2 runs on, then once
\* the clock is past the end of c1's lease plus one manageGroup period, a
\* LeaderDeclared(c2) was appended by that time and the fold of the stream
\* shows c2 as leader
C9_LeaderFailover ==
    FirstStoppedAsLeader /\ now > FirstLeaseEnd + 1000 =>
        /\ \E j \in LeaderEventsOf("c2") :
              /\ j > Max(LeaderEventsOf("c1"))
              /\ log[j].at <= FirstLeaseEnd + 1000
        /\ Projection(StreamVersion).Leader = "c2"

\* c1 stopped as leader, its lease and one more period are over, and c2 has
\* declared itself leader
C9_Witness ==
    /\ FirstStoppedAsLeader
    /\ now > FirstLeaseEnd + 1000
    /\ LeaderEventsOf("c2") # {}
    /\ gs["c2"].Leader = "c2"

C10_CancelReturnsNil ==
    \A c \in Consumers : pc[c] = "done" /\ cancelled[c] => result[c] = "nil"

\* the milestone whose range holds the position of domain message m
MilestoneOf(m) == m.gp \div MilestoneSize + 1

\* consumer c's message handler was passed the domain message m
HandledBy(c, m) == \E i \in 1..Len(handled[c]) : handled[c][i].gp = m.gp

\* the instant a lone consumer first reads the category: its first check-in
\* to be accepted, the milestone that follows it, the next updateState
FirstReadAt == checkinFirstDelay + checkinPeriod + updateStatePeriod

\* the time a lone consumer takes at most from one milestone to the next: a
\* check-in period to check in as complete, an updateState period to see the
\* milestone it started
MilestoneTurn == checkinPeriod + updateStatePeriod

\* the instant by which a lone consumer handles m: from the later of m's
\* writing and the first read, a turn for each milestone before m's, and one
\* polling delay
HandledByTime(m) ==
    (IF m.at > FirstReadAt THEN m.at ELSE FirstReadAt)
        + (MilestoneOf(m) - 1) * MilestoneTurn + PollMax

\* C7: while c1, the only consumer to have joined, keeps running with its
\* context not cancelled, every message of the domain category has been passed
\* to its handler once the clock is past the time that message is due
C7_SoloHandlesAll ==
    pc["c1"] = "run" /\ ~cancelled["c1"] =>
        \A i \in 1..Len(category) :
            now > HandledByTime(category[i]) => HandledBy("c1", category[i])

\* c1 has handled, in the second milestone, a message of the second
\* milestone's range, and the time it was due is over
C7_Witness ==
    /\ pc["c1"] = "run"
    /\ ~cancelled["c1"]
    /\ \E i \in 1..Len(category) :
          /\ MilestoneOf(category[i]) = 2
          /\ now > HandledByTime(category[i])
          /\ \E k \in 1..Len(handled["c1"]) :
                handled["c1"][k] = [gp |-> category[i].gp, ms |-> 2]

\* the places in the stream of the MilestoneStarted events
MilestonePlaces == {i \in 1..Len(log) : log[i].type = "MilestoneStarted"}

\* the places in the stream of the check-ins of consumer id
CheckInPlaces(id) ==
    {i \in 1..Len(log) : /\ log[i].type = "ConsumerCheckedIn"
                         /\ log[i].ConsumerState.ConsumerID = id}

\* consumer id had stopped checking in when the event at place b was written
\* and never checked in for the milestone started at place a: its JoinGroup
\* has returned, its check-ins are all from before a, and the last of them
\* had run out when b was written
StoppedCheckingIn(id, a, b) ==
    /\ pc[id] = "done"
    /\ \A i \in CheckInPlaces(id) :
          i < a /\ log[i].ConsumerState.NextCheckIn <= log[b].at

\* the position consumer id reported in its latest check-in
LastPosition(id) ==
    IF CheckInPlaces(id) = {} THEN 0
    ELSE log[Max(CheckInPlaces(id))].ConsumerState.CurrentPosition

\* milestone n records as debt the part of milestone m's range that consumer
\* id, which never checked in for m, left unread in its partition: from the
\* start of m, or from the position after the last one it reported
RecordsDebtOf(n, m, id) ==
    \E x \in DOMAIN n.Debt :
        \E k \in 1..Len(n.Debt[x]) :
            /\ n.Debt[x][k].GroupSize = Cardinality(DOMAIN m.Partitions)
            /\ n.Debt[x][k].Partition = m.Partitions[id]
            /\ n.Debt[x][k].From \in {m.From, LastPosition(id) + 1}
            /\ n.Debt[x][k].End = m.End

\* the domain messages debt d covers: those of its range that its partition
\* of the group selects
DebtMessages(d) ==
    {i \in 1..Len(category) :
        /\ category[i].gp >= d.From
        /\ category[i].gp < d.End
        /\ InPartition(category[i], d.Partition, d.GroupSize)}

\* C6: when a consumer with a partition of a milestone stopped checking in
\* before it checked in for that milestone, the next MilestoneStarted records
\* its partition of the milestone's range as debt; and a consumer that has
\* completed a milestone which assigned it debt has passed every domain
\* message that debt covers to its message handler
C6_DebtDelivered ==
    /\ \A a, b \in MilestonePlaces :
          a < b /\ ~(\E i \in MilestonePlaces : a < i /\ i < b) =>
             \A id \in DOMAIN log[a].Milestone.Partitions :
                 StoppedCheckingIn(id, a, b) =>
                     RecordsDebtOf(log[b].Milestone, log[a].Milestone, id)
    /\ \A c \in Running :
          cs[c].MilestoneComplete =>
             \A k \in 1..Len(cs[c].Debt) :
                 \A i \in DebtMessages(cs[c].Debt[k]) : HandledBy(c, category[i])

MessageCalls == SelectSeq(calls, LAMBDA x : x.h = "message")

LivenessCalls == SelectSeq(calls, LAMBDA x : x.h = "liveness")

DroppedCalls == SelectSeq(calls, LAMBDA x : x.h = "dropped")

\* C12: the message handler of a subscription started from version f is called
\* with the stream's messages at versions f, f + 1, f + 2, ... in this order,
\* none left out and none twice, and the cursor is the version after the last
\* one handled
C12_InOrderExactlyOnce ==
    sub.pc \in {"run", "stopped", "panicked"} =>
        /\ \A i \in 1..Len(MessageCalls) :
              /\ MessageCalls[i].version = sub.from + i - 1
              /\ MessageCalls[i].version < Len(stream)
              /\ MessageCalls[i].arg = stream[MessageCalls[i].version + 1].id
        /\ sub.version = sub.from + Len(MessageCalls)

\* a subscription started from version 1 with batch size 2 has handled three
\* messages, which takes two batches
C12_Witness ==
    /\ sub.from = 1
    /\ sub.batchSize = 2
    /\ Len(MessageCalls) = 3

\* C13: the dropped handler is called at most once; it has been called exactly
\* once when the subscription has stopped, and only then; and its call is the
\* last call the subscription makes to any of its handlers
C13_DroppedOnce ==
    /\ Len(DroppedCalls) <= 1
    /\ sub.pc = "stopped" <=> Len(DroppedCalls) = 1
    /\ \A i \in 1..Len(calls) : calls[i].h = "dropped" => i = Len(calls)

\* a subscription that handled messages and went live was cancelled and has
\* stopped
C13_Witness ==
    /\ sub.pc = "stopped"
    /\ sub.cause = "cancel"
    /\ Len(MessageCalls) >= 1
    /\ Len(LivenessCalls) >= 1
    /\ Len(DroppedCalls) = 1

\* C14: a subscription that stopped on the cancellation of its context called
\* the dropped handler with nil; one that stopped on another read error called
\* it with that error
C14_DroppedError ==
    sub.pc = "stopped" =>
        /\ sub.cause = "cancel" => calls[Len(calls)] = DroppedCall("nil")
        /\ sub.cause = "read" => calls[Len(calls)] = DroppedCall(sub.err)

\* the calls before the first call to the message handler
BeforeMessages ==
    IF \E i \in 1..Len(calls) : calls[i].h = "message"
    THEN SubSeq(calls, 1, Min({i \in 1..Len(calls) : calls[i].h = "message"}) - 1)
    ELSE calls

SaidInLastRead == SubSeq(calls, sub.last.base + sub.last.n + 1, Len(calls))

\* C16: after a read by a live subscription that returned batchSize messages
\* the subscription is behind, has called the liveness handler with false and
\* can poll again; after a read by a subscription that was behind and got
\* fewer than batchSize messages it is live and has called the liveness
\* handler with true; after any other read it has not called the liveness
\* handler; and a subscription that is behind has a tick of its ticker to come
C16_LivenessTransitions ==
    (sub.pc \in {"run", "panicked"} /\ sub.last.n >= 0) =>
        /\ IF sub.last.wasLive /\ sub.last.n = sub.batchSize
           THEN /\ ~sub.live
                /\ SaidInLastRead = <<LivenessCall(FALSE)>>
                /\ sub.pc = "run"
           ELSE IF ~sub.last.wasLive /\ sub.last.n < sub.batchSize
           THEN /\ sub.live
                /\ SaidInLastRead = <<LivenessCall(TRUE)>>
           ELSE SaidInLastRead = <<>>
        /\ ~sub.live => sub.ticks # "none"

\* C17: when the liveness handler has been called with true, every message
\* that was in the stream from version fromVersion on when the subscription
\* started was passed to the message handler before that call
C17_LiveAfterCatchUp ==
    (\E k \in 1..Len(calls) : calls[k] = LivenessCall(TRUE)) =>
        LET k == Min({i \in 1..Len(calls) : calls[i] = LivenessCall(TRUE)})
        IN  \A v \in sub.from..(sub.startLen - 1) :
                \E j \in 1..(k - 1) :
                    /\ calls[j].h = "message"
                    /\ calls[j].version = v

\* a subscription with batch size 2 started from version 0 on a stream of
\* three messages or more has gone live
C17_Witness ==
    /\ sub.from = 0
    /\ sub.batchSize = 2
    /\ sub.startLen >= 3
    /\ Len(LivenessCalls) >= 1

\* the stream's version before the latest write
VersionBefore == GetStreamVersion(ops.w.was)

\* the message that write proposed, as the store holds it when it is accepted
WrittenAt(v) ==
    [id |-> ops.w.id, version |-> v, type |-> ops.w.type, data |-> ops.w.data]

Written == WrittenAt(VersionBefore + 1)

\* C18: WriteMessage with NoStreamVersion on a stream without messages appends
\* the message at version 0 and returns 0; with NoStreamVersion on a stream
\* that has messages it returns ErrUnexpectedStreamVersion and the stream is
\* as it was; with AnyVersion it appends the message and returns the stream's
\* version before the write plus 1
C18_ExpectedVersions ==
    ops.w.err # "none" =>
        /\ (ops.w.expected = NoStreamVersion /\ ops.w.was = <<>>) =>
              /\ ops.w.err = "nil"
              /\ ops.w.rev = 0
              /\ stream = <<WrittenAt(0)>>
        /\ (ops.w.expected = NoStreamVersion /\ ops.w.was # <<>>) =>
              /\ ops.w.err = "ErrUnexpectedStreamVersion"
              /\ stream = ops.w.was
        /\ ops.w.expected = AnyVersion =>
              /\ ops.w.err = "nil"
              /\ ops.w.rev = VersionBefore + 1
              /\ stream = Append(ops.w.was, Written)

\* a write with AnyVersion on a stream of one message returned 1
C18_Witness ==
    /\ ops.w.expected = AnyVersion
    /\ Len(ops.w.was) = 1
    /\ ops.w.err = "nil"
    /\ ops.w.rev = 1

\* the statement of C19 as the specification has it: after a successful write
\* with expected version v, the stream's version is v + 1 or more and reading
\* the stream from version v gives the message at version v + 1
C19_ReadBackAtExpected ==
    (ops.w.err = "nil" /\ ops.w.expected # AnyVersion) =>
        /\ GetStreamVersion(stream) >= ops.w.expected + 1
        /\ \E i \in 1..Len(stream) :
              /\ i <= Len(GetStreamMessagesOf(stream, ops.w.expected, DefaultBatchSize).msgs)
              /\ GetStreamMessagesOf(stream, ops.w.expected, DefaultBatchSize).msgs[i]
                    = WrittenAt(ops.w.expected + 1)

\* C19: after a successful write on a stream at version v (the expected
\* version, unless that was AnyVersion) the write returned v + 1, the stream's
\* version is v + 1 or more, and reading the stream from version v, or from
\* version 0 when v = -1, gives the message at version v + 1; reading from
\* version -1 is refused with ErrInvalidReadStreamVersion
C19_ReadBack ==
    ops.w.err = "nil" =>
        LET v  == VersionBefore
            r  == GetStreamMessagesOf(stream, IF v < 0 THEN 0 ELSE v, DefaultBatchSize)
        IN  /\ ops.w.expected # AnyVersion => ops.w.expected = v
            /\ ops.w.rev = v + 1
            /\ GetStreamVersion(stream) >= v + 1
            /\ r.err = "nil"
            /\ \E i \in 1..Len(r.msgs) : r.msgs[i] = Written
            /\ GetStreamMessagesOf(stream, -1, DefaultBatchSize).err
                  = "ErrInvalidReadStreamVersion"

\* a message written with expected version 1 was then read back from version 1
C19_Witness ==
    /\ ops.w.err = "nil"
    /\ ops.w.expected = 1
    /\ ops.r.err = "nil"
    /\ ops.r.version = 1
    /\ Len(ops.r.msgs) >= 2
    /\ ops.r.msgs[2] = Written

\* the checks of categoryConfig.validate, in the order it makes them
PositionValid(cfg) == cfg.position >= 0

BatchSizeValid(cfg) == cfg.batchSize >= 1

MemberValid(cfg) ==
    /\ cfg.consumerGroupMember >= 0
    /\ (cfg.consumerGroupSize > 0 => cfg.consumerGroupMember < cfg.consumerGroupSize)

SizeValid(cfg) == cfg.consumerGroupSize >= 0

\* C20: categoryConfig.validate returns nil exactly when the position is 0 or
\* more, the batch size 1 or more, the member 0 or more, the size 0 or more and
\* the member less than a size above 0; otherwise it returns the error of the
\* first check that fails, in the order position, batch size, member, size
C20_CategoryConfigValidate ==
    opt.err # "none" =>
        /\ opt.err = "nil" <=>
              /\ opt.cfg.position >= 0
              /\ opt.cfg.batchSize >= 1
              /\ opt.cfg.consumerGroupMember >= 0
              /\ opt.cfg.consumerGroupSize >= 0
              /\ (opt.cfg.consumerGroupSize > 0 =>
                     opt.cfg.consumerGroupMember < opt.cfg.consumerGroupSize)
        /\ opt.err # "nil" =>
              opt.err = IF ~PositionValid(opt.cfg) THEN "ErrInvalidReadPosition"
                        ELSE IF ~BatchSizeValid(opt.cfg) THEN "ErrInvalidReadBatchSize"
                        ELSE IF ~MemberValid(opt.cfg) THEN "ErrInvalidConsumerGroupMember"
                        ELSE "ErrInvalidConsumerGroupSize"

\* options with a negative member and a negative size were refused for the
\* member
C20_Witness ==
    /\ opt.err = "ErrInvalidConsumerGroupMember"
    /\ opt.cfg.consumerGroupMember < 0
    /\ opt.cfg.consumerGroupSize < 0

\* the validation errors the latest WriteMessage's inputs call for
WriteFaults ==
    (IF ops.w.si.Category = <<>> THEN {"ErrMissingCategory"} ELSE {})
    \cup (IF \E i \in 1..Len(ops.w.si.Category) : ops.w.si.Category[i] = "-"
          THEN {"ErrInvalidCategory"} ELSE {})
    \cup (IF ops.w.si.ID = "" THEN {"ErrMissingStreamID"} ELSE {})
    \cup (IF ops.w.id = "" THEN {"ErrInvalidMessageID"} ELSE {})
    \cup (IF ops.w.type = "" THEN {"ErrMissingType"} ELSE {})
    \cup (IF ops.w.data = <<>> THEN {"ErrMissingData"} ELSE {})

\* the errors a call may be refused with before it reaches the store
ValidationErrors ==
    {"ErrMissingCategory", "ErrInvalidCategory", "ErrMissingStreamID",
     "ErrInvalidMessageID", "ErrMissingType", "ErrMissingData",
     "ErrInvalidReadStreamVersion", "ErrInvalidReadPosition", "ErrInvalidReadBatchSize",
     "ErrInvalidConsumerGroupMember", "ErrInvalidConsumerGroupSize",
     "category cannot contain stream name separator"}

\* C21: a WriteMessage with an invalid stream identifier or message returns
\* one of the validation errors its inputs call for, does not reach the store
\* and leaves the stream as it was; a read with version or position < 0 or
\* batch size < 1 returns a validation error and no messages without reaching
\* the store; a SubscribeToStream with such options returns a validation
\* error, makes no read and calls no handler
C21_ValidationFirst ==
    /\ (ops.w.err # "none" /\ WriteFaults # {}) =>
          /\ ops.w.err \in WriteFaults
          /\ ~ops.w.queried
          /\ stream = ops.w.was
    /\ (ops.r.kind # "none" /\ (ops.r.version < 0 \/ ops.r.batchSize < 1)) =>
          /\ ops.r.err \in ValidationErrors
          /\ ~ops.r.queried
          /\ ops.r.msgs = <<>>
    /\ (sub.pc # "none" /\ (sub.version < 0 \/ sub.batchSize < 1)) =>
          /\ sub.pc = "refused"
          /\ sub.ret \in ValidationErrors
          /\ sub.last = NoRead
          /\ calls = <<>>

\* C21 happens: on a stream with a message, a write without data, a category
\* read from a negative position and a subscription with batch size 0 were
\* all refused
C21_Witness ==
    /\ stream # <<>>
    /\ ops.w.err = "ErrMissingData"
    /\ ops.r.kind = "category" /\ ops.r.err = "ErrInvalidReadPosition"
    /\ sub.pc = "refused" /\ sub.ret = "ErrInvalidReadBatchSize"

\* the strategies called so far
Called == {s \in Strategies : strat.last[s].retrieved # -1}

\* min * (num/den)^k capped at max, without the limits of int64 and float64
IdealBackoff(f, k) ==
    LET a == MulNat(PowNat(f.num, k), f.min)
        b == MulNat(PowNat(f.den, k), f.max)
    IN  IF LessNat(b, a) THEN f.max ELSE Int64(DivTimes(a, f.den, k))

\* C22: a strategy of ExpBackoffPolling(min, max, mult) returns 0 on a read
\* that retrieved what was expected, min on a read that retrieved some of it,
\* and min * mult^n capped at max on the n-th consecutive read without
\* messages, n counted from 0 since the last read with messages
C22_ExpBackoff ==
    strat.factory.kind = "ExpBackoff" =>
        \A s \in Called :
            LET l == strat.last[s]
            IN  /\ l.retrieved = l.expected => l.ret = Zero64
                /\ (0 < l.retrieved /\ l.retrieved < l.expected) => l.ret = strat.factory.min
                /\ l.retrieved = 0 => l.ret = IdealBackoff(strat.factory, l.run)

\* the delay d moved by a step towards the target and clamped to [min, max]
IdealDynamic(f, d, retrieved, expected) ==
    LET adj == IF retrieved * f.den < f.num * expected THEN AddInt64(d, f.step)
               ELSE IF retrieved * f.den > f.num * expected
               THEN AddInt64(d, NegInt64(f.step))
               ELSE d
    IN  IF LessInt64(f.max, adj) THEN f.max
        ELSE IF LessInt64(adj, f.min) THEN f.min
        ELSE adj

\* C23: a strategy of DynamicPolling(target, step, min, max) returns 0 on a
\* read that retrieved what was expected and keeps its delay; on any other
\* read it moves its delay by step (up when retrieved/expected is below the
\* target, down when above, not at all when equal), clamps it to [min, max]
\* and returns it, so that every delay it returns but 0 is within [min, max]
C23_Dynamic ==
    strat.factory.kind = "Dynamic" =>
        \A s \in Called :
            LET l == strat.last[s]
                f == strat.factory
            IN  /\ l.retrieved = l.expected =>
                      l.ret = Zero64 /\ strat.cells[s].delay = l.before
                /\ l.retrieved # l.expected =>
                      /\ l.ret = IdealDynamic(f, l.before, l.retrieved, l.expected)
                      /\ strat.cells[s].delay = l.ret
                /\ l.ret # Zero64 => ~LessInt64(l.ret, f.min) /\ ~LessInt64(f.max, l.ret)

\* C23 happens: a dynamic strategy at its largest delay was called after a
\* read below the target and returned the largest delay, and the other one
\* at its smallest delay was called after a read above the target
C23_Witness ==
    /\ strat.factory.kind = "Dynamic"
    /\ Called = Strategies
    /\ strat.last["s1"].before = strat.factory.max
    /\ strat.last["s1"].retrieved = 5
    /\ strat.last["s1"].ret = strat.factory.max
    /\ strat.last["s2"].before = strat.factory.min
    /\ strat.last["s2"].retrieved = 7
    /\ strat.last["s2"].ret = strat.factory.min

Decoded ==
    SelectSeq([i \in 1..Len(MessageCalls) |-> MessageOf(stream[MessageCalls[i].version + 1])],
              LAMBDA m : m.type \in EventTypes /\ m.json = "object")

\* the group state after the events evts, each applied with its own version
RECURSIVE StateAfter(_, _)
StateAfter(g, evts) ==
    IF evts = <<>> THEN g
    ELSE StateAfter(Apply(Head(evts), g, Head(evts).version), Tail(evts))

\* C25: ObserveGroup never writes to the coordination stream; its state
\* handler has been called once for every event of the stream handed to it
\* that decodes, in the stream's order, each time with the state that has this
\* event and the decodable ones before it applied; a message that does not
\* decode changes nothing and brings no call
C25_ObserveGroup ==
    /\ [](/\ Len(Observer.said) = Len(Decoded)
          /\ \A i \in 1..Len(Decoded) :
                /\ Observer.said[i].version = Decoded[i].version
                /\ Observer.said[i].gs = StateAfter(NoObserver.gs, SubSeq(Decoded, 1, i))
          /\ Observer.gs = StateAfter(NoObserver.gs, Decoded)
          /\ \A i, j \in 1..Len(Observer.said) :
                i < j => Observer.said[i].version < Observer.said[j].version)
    /\ [][(sub' # sub \/ calls' # calls) => stream' = stream]_vars

\* the observer was handed two events that decode around one that does not
C25_Witness ==
    /\ Len(Observer.said) >= 2
    /\ Len(MessageCalls) > Len(Decoded)
    /\ \E i \in 1..Len(MessageCalls) - 1 :
          /\ eventFromMessage(MessageOf(stream[i])) # "nil"
          /\ eventFromMessage(MessageOf(stream[i + 1])) = "nil"
    /\ Observer.said[1].gs # Observer.gs

\* this step appends an event of one of the types to the coordination stream,
\* written by consumer c
Appends(c, types) ==
    /\ Len(log') = Len(log) + 1
    /\ log'[Len(log')].by = c
    /\ log'[Len(log')].type \in types

\* C26: a consumer appends a LeaderDeclared or a MilestoneStarted event only
\* when it is live, that is when its most recent updateState returned fewer
\* than 100 events
C26_ManageOnlyLive ==
    [][\A c \in Consumers :
          Appends(c, {"LeaderDeclared", "MilestoneStarted"}) => batches[c].live]_vars

\* C27: at the end of every iteration of the loop in which the consumer's
\* manageGroup appended a LeaderDeclared or a MilestoneStarted event, and of
\* every one in which its checkIn appended a ConsumerCheckedIn event,
\* updateStateNow holds a signal
C27_UpdateSignalled ==
    [][\A c \in Consumers :
          Appends(c, EventTypes) => sig'[c].update]_vars

\* the part of C27 about checkIn alone
C27_CheckInSignals ==
    [][\A c \in Consumers :
          Appends(c, {"ConsumerCheckedIn"}) => sig'[c].update]_vars

\* C28: once updateState has processed a batch with messages, the consumer's
\* GroupState.Version is the version of the last message of the latest such
\* batch, whether that message decodes or not
C28_VersionOfLastMessage ==
    \A c \in Running :
        batches[c].last # NoStreamVersion => gs[c].Version = batches[c].last

\* a consumer whose GroupState.Version is behind the last message it has read
\* appends nothing: its writes expect a version the stream is past
C28_BehindNeverWrites ==
    [][\A c \in Consumers :
          (pc[c] = "run" /\ gs[c].Version < batches[c].last) => ~Appends(c, EventTypes)]_vars

\* the statement of C29 as the specification has it: a consumer whose
\* ConsumerState has MilestoneComplete set has its CurrentPosition at the
\* current milestone's End - 1 or beyond
C29_CompleteAtEnd ==
    \A c \in Running :
        (cs[c].MilestoneComplete /\ gs[c].CurrentMilestone # <<>>) =>
            cs[c].CurrentPosition >= gs[c].CurrentMilestone[1].End - 1

\* the domain messages of consumer c's partition of milestone m
PartitionOf(c, m) ==
    {category[i] : i \in {k \in 1..Len(category) :
                            InPartition(category[k], SlotOf(m, c),
                                        Cardinality(DOMAIN m.Partitions))}}

\* C29: a consumer whose ConsumerState has MilestoneComplete set for the
\* current milestone m has its CurrentPosition at the last message it handled
\* in m, or at m.From - 1, which is below m.End; the category holds a message
\* of its partition at m.End or beyond, and none of its partition between
\* CurrentPosition and m.End
C29_CompleteNothingLeft ==
    \A c \in Running :
        (/\ cs[c].MilestoneComplete
         /\ gs[c].CurrentMilestone # <<>>
         /\ cs[c].MilestoneID = gs[c].CurrentMilestone[1].ID) =>
            LET m == gs[c].CurrentMilestone[1]
            IN  /\ m.From - 1 <= cs[c].CurrentPosition
                /\ cs[c].CurrentPosition < m.End
                /\ \E x \in PartitionOf(c, m) : x.gp >= m.End
                /\ \A x \in PartitionOf(c, m) :
                      ~(cs[c].CurrentPosition < x.gp /\ x.gp < m.End)

\* a consumer has read a message beyond the end of its milestone and has
\* completed the milestone with its CurrentPosition below End - 1
C29_Witness ==
    \E c \in Running :
        /\ cs[c].MilestoneComplete
        /\ gs[c].CurrentMilestone # <<>>
        /\ cs[c].MilestoneID = gs[c].CurrentMilestone[1].ID
        /\ cs[c].CurrentPosition < gs[c].CurrentMilestone[1].End - 1
        /\ \E x \in PartitionOf(c, gs[c].CurrentMilestone[1]) :
              x.gp > gs[c].CurrentMilestone[1].End

\* the milestones started with id
MilestonesOf(id) ==
    {MilestoneEvents[k].Milestone : k \in {i \in 1..Len(MilestoneEvents) :
                                              MilestoneEvents[i].Milestone.ID = id}}

\* C30: every message a consumer passed to the user handler while milestone m
\* was the current milestone of its GroupState has its global position in
\* [m.From, m.End), and the positions handed over within one milestone are
\* strictly increasing
C30_WithinMilestone ==
    \A c \in Consumers :
        \A i \in 1..Len(handled[c]) :
            /\ \A m \in MilestonesOf(handled[c][i].ms) :
                  /\ m.From <= handled[c][i].gp
                  /\ handled[c][i].gp < m.End
            /\ \A j \in 1..Len(handled[c]) :
                  (i < j /\ handled[c][i].ms = handled[c][j].ms) =>
                      handled[c][i].gp < handled[c][j].gp

\* C40: for every number of consecutive reads without messages the delay a
\* strategy of ExpBackoffPolling(min, max, mult) returns is within [min, max],
\* and it is never less than the delay of the read without messages before it
C40_BackoffWithinBounds ==
    /\ [](strat.factory.kind = "ExpBackoff" =>
            \A s \in Called :
                strat.last[s].retrieved = 0 =>
                    /\ ~LessInt64(strat.last[s].ret, strat.factory.min)
                    /\ ~LessInt64(strat.factory.max, strat.last[s].ret))
    /\ [][\A s \in Strategies :
            (/\ strat.factory.kind = "ExpBackoff"
             /\ strat'.factory = strat.factory
             /\ strat.last[s].retrieved = 0
             /\ strat'.last[s].retrieved = 0
             /\ strat'.last[s].run = strat.last[s].run + 1)
                => ~LessInt64(strat'.last[s].ret, strat.last[s].ret)]_vars

\* C31: a consumer passes a domain message to its handler under a milestone
\* only if that milestone's partitions name it: a consumer that is not among
\* the partitions of its current milestone hands nothing over, and reads no
\* other consumer's partition
C31_OnlyAssignedRead ==
    \A c \in Consumers :
        \A i \in 1..Len(handled[c]) :
            \A m \in MilestonesOf(handled[c][i].ms) : c \in DOMAIN m.Partitions

\* every MilestoneStarted of the stream assigns a partition to some consumer
C32_PartitionsNotEmpty ==
    \A i \in 1..Len(MilestoneEvents) : DOMAIN MilestoneEvents[i].Milestone.Partitions # {}

\* manageGroup by c, with a current milestone to take debt from, panics in
\* this step: idlers[idx%len(idlers)] with no idler
DividesByZero(c) ==
    /\ pc[c] = "run"
    /\ gs[c].CurrentMilestone # <<>>
    /\ result'[c] = "panic"

\* C32: manageGroup starts a milestone only when an idle consumer has its
\* nextCheckIn in the future: every MilestoneStarted written has a partitions
\* map that is not empty, and the debt assignment never indexes an empty list
\* of idlers, also when all idle check-ins have expired and active consumers
\* carry debt
C32_MilestoneNeedsIdlers ==
    /\ []C32_PartitionsNotEmpty
    /\ [][\A c \in Consumers :
            /\ Appends(c, {"MilestoneStarted"}) => aliveIdlers(gs[c]) # {}
            /\ ~DividesByZero(c)]_vars

C32_NoDivisionByZero == [][\A c \in Consumers : ~DividesByZero(c)]_vars

\* the active consumers of g whose check-in is not yet due at time t
Unexpired(g, t) ==
    {id \in DOMAIN g.ActiveConsumers : g.ActiveConsumers[id].NextCheckIn > t}

\* C33: a MilestoneStarted is appended only by a writer whose projection is
\* the fold of the stream up to the version it writes against, and in which no
\* active consumer has a check-in still to come and the current milestone, if
\* there is one, ends at or below the high water mark
C33_MilestoneOnlyWhenDue ==
    [][\A c \in Consumers :
         Appends(c, {"MilestoneStarted"}) =>
            /\ gs[c].Version = StreamVersion
            /\ gs[c] = Projection(StreamVersion)
            /\ Unexpired(gs[c], now) = {}
            /\ \/ gs[c].CurrentMilestone = <<>>
               \/ gs[c].HighWaterMark >= gs[c].CurrentMilestone[1].End]_vars

\* a milestone was started over active consumers whose check-ins had all
\* passed, after a milestone that the high water mark had reached
C33_Witness ==
    \E i \in 1..Len(log) :
        /\ log[i].type = "MilestoneStarted"
        /\ LET g == Projection(log[i].expected)
           IN  /\ DOMAIN g.ActiveConsumers # {}
               /\ Unexpired(g, log[i].at) = {}
               /\ g.CurrentMilestone # <<>>
               /\ g.HighWaterMark >= g.CurrentMilestone[1].End

\* manageGroup by c panics in this step on current.Partitions, current nil
DereferencesNil(c) ==
    /\ pc[c] = "run"
    /\ gs[c].CurrentMilestone = <<>>
    /\ result'[c] = "panic"

\* C34: in every GroupState of a running consumer, and in the fold of the
\* whole stream, active consumers imply a current milestone; so manageGroup
\* never takes debt from the active consumers of a milestone that is absent
C34_ActiveImpliesMilestone ==
    /\ [](\A g \in Projections : DOMAIN g.ActiveConsumers # {} => g.CurrentMilestone # <<>>)
    /\ [][\A c \in Consumers : ~DereferencesNil(c)]_vars

\* a milestone was started with the debt of an active consumer in it
C34_Witness ==
    \E i \in 1..Len(MilestoneEvents) : DOMAIN MilestoneEvents[i].Milestone.Debt # {}

\* C35: every MilestoneStarted of the stream was written by the consumer that
\* the fold of the events before it names as leader, and when it was written
\* that leader's lease had at least a second to run; no other consumer, and
\* no leader of a lease that has ended, gets a MilestoneStarted appended
C35_MilestoneByLeader ==
    \A i \in 1..Len(log) :
        log[i].type = "MilestoneStarted" =>
            /\ Projection(i - 2).Leader = log[i].by
            /\ Projection(i - 2).LeaderExpires >= log[i].at + LeaseRenewMargin
            /\ log[i].expected = i - 2

\* the second consumer started a milestone after it took over from the first
C35_Witness ==
    \E i \in 1..Len(log) :
        /\ log[i].type = "MilestoneStarted"
        /\ log[i].by = "c2"
        /\ LeaderEventsOf("c1") # {}
        /\ pc["c1"] = "done"

\* the slots of milestone m are a bijection from its consumers onto 0..n-1
SlotsBijective(m) ==
    LET ids == DOMAIN m.Partitions
        n   == Cardinality(ids)
    IN  /\ \A id \in ids : m.Partitions[id] \in 0..(n - 1)
        /\ \A a, b \in ids : m.Partitions[a] = m.Partitions[b] => a = b
        /\ {m.Partitions[id] : id \in ids} = 0..(n - 1)

\* C36: in every MilestoneStarted of the stream the partition slots are a
\* bijection from the assigned consumers onto 0..n-1, n being the number of
\* entries of partitions: no two consumers share a slot and no slot is left out
C36_SlotsBijective ==
    \A i \in 1..Len(MilestoneEvents) : SlotsBijective(MilestoneEvents[i].Milestone)

\* a milestone was started with both consumers assigned
C36_Witness ==
    \E i \in 1..Len(MilestoneEvents) :
        DOMAIN MilestoneEvents[i].Milestone.Partitions = Consumers

\* c ran checkIn, manageGroup or readMessages in this step and JoinGroup goes on
RanOtherHandler(c) ==
    /\ pc'[c] = "run"
    /\ \/ CheckInNow(c)
       \/ CheckinTimer(c)
       \/ ManageGroupNow(c)
       \/ ManageGroupTimer(c)
       \/ ReadMessages(c)

\* the GroupState c gets from the events it reads next
ReadBack(c) ==
    ApplyBatch(gs[c], GetStreamMessages(gs[c].Version + 1, StateBatchSize), gs[c].Version + 1)

\* C37: checkIn, manageGroup and readMessages leave GroupState as it is; it
\* changes only in updateState, to the fold of the events read back from the
\* stream. So a consumer's GroupState.Version is never beyond the stream's
\* version, and an event a consumer has just written is not in its projection
C37_OnlyUpdateStateChanges ==
    /\ [](\A c \in Running : gs[c].Version <= StreamVersion)
    /\ [][\A c \in Consumers :
            /\ RanOtherHandler(c) => gs'[c] = gs[c]
            /\ (pc[c] = "run" /\ pc'[c] = "run" /\ gs'[c] # gs[c]) =>
                  /\ UpdateStateNow(c) \/ UpdateStateTimer(c)
                  /\ gs'[c] = ReadBack(c)
            /\ (Appends(c, EventTypes) /\ pc'[c] = "run") =>
                  gs'[c].Version < StreamVersion']_vars

\* a consumer's projection holds the event of its own last write
C37_Witness ==
    \E c \in Running :
        /\ lastWrite[c].appended
        /\ gs[c].Version > lastWrite[c].expected
        /\ log[lastWrite[c].expected + 2].by = c

\* the mutex goroutine g is waiting to lock, "none" if it is not waiting
WaitsFor(g) ==
    IF mu.at[g] = "gsMtx.Lock" THEN "gsMtx"
    ELSE IF mu.at[g] = "csMtx.Lock" THEN "csMtx"
    ELSE "none"

\* g waits for a mutex that h holds
WaitsOn(g, h) == WaitsFor(g) # "none" /\ mu[WaitsFor(g)] = h

\* C39: in the JoinGroup of goroutines and mutexes no two goroutines ever
\* wait for one another, each for the mutex the other holds, whatever the
\* interleaving of the state handler, the check-in goroutine, the leader
\* goroutine and the dispatch loop
C39_NoDeadlock ==
    ~ \E g, h \in Goroutines : g # h /\ WaitsOn(g, h) /\ WaitsOn(h, g)

\* every goroutine of the JoinGroup waits for a mutex, none can take a step
C39_AllBlocked ==
    /\ ~mu.panicked
    /\ \A g \in Goroutines : \E h \in Goroutines : WaitsOn(g, h)

\* a lone consumer has its first milestone by then, as C7 has it read by then
ProgressStart == FirstReadAt

\* milestone 1 is current for c, which it assigns a partition, and the high
\* water mark has reached its end, with time left for a turn of the group
MilestoneToComplete(c) ==
    /\ pc[c] = "run"
    /\ now <= ProgressStart
    /\ gs[c].CurrentMilestone # <<>>
    /\ gs[c].CurrentMilestone[1].ID = 1
    /\ c \in DOMAIN gs[c].CurrentMilestone[1].Partitions
    /\ gs[c].HighWaterMark >= gs[c].CurrentMilestone[1].End

\* c has checked in with milestone 1 complete, and milestone 2 is started
MilestoneCompleted(c) ==
    /\ \E i \in 1..Len(log) :
          /\ log[i].type = "ConsumerCheckedIn"
          /\ log[i].ConsumerState.ConsumerID = c
          /\ log[i].ConsumerState.MilestoneID = 1
          /\ log[i].ConsumerState.MilestoneComplete
    /\ MilestonesOf(2) # {}

\* c's partition of milestone 1 has a message at or beyond the milestone's end
MessageBeyondEnd(c) ==
    \E m \in PartitionOf(c, gs[c].CurrentMilestone[1]) :
        m.gp >= gs[c].CurrentMilestone[1].End

\* C38: when milestone 1 is current, its consumer keeps running and the high
\* water mark has reached the milestone's end, the consumer eventually checks
\* in with the milestone complete and the leader eventually starts milestone
\* 2, also when the consumer's partition has no message at or beyond the end
C38_MilestoneProgress ==
    MilestoneToComplete("c1") ~> MilestoneCompleted("c1")

\* c's own projection has it among the active consumers of milestone 1
ActiveInMilestone(c) ==
    /\ c \in DOMAIN gs[c].ActiveConsumers
    /\ gs[c].ActiveConsumers[c].MilestoneID = 1

\* the same from where the consumer has checked in as active
C38_ProgressOnceActive ==
    (MilestoneToComplete("c1") /\ ActiveInMilestone("c1")) ~> MilestoneCompleted("c1")

\* the same where, besides, its partition has a message at or beyond the end
C38_ProgressPastMessage ==
    (MilestoneToComplete("c1") /\ ActiveInMilestone("c1") /\ MessageBeyondEnd("c1"))
        ~> MilestoneCompleted("c1")

====
